---- MODULE Spec2Model ----
(***************************************************************************)
(* A model of the abb_to_mqtt gateway: the Aurora (ABB) protocol engine    *)
(* and device model (src/src/aurora.rs), the polling scheduler             *)
(* (src/src/events.rs, wired in src/src/main.rs) and the Solax X1 Air      *)
(* protocol engine (src/src/solax_x1_air.rs).                              *)
(*                                                                         *)
(* Spec       the scheduler: timer callbacks, the two try_lock'ed mutexes, *)
(*            one poll pass over the Aurora inverters, the publisher.      *)
(* SpecPass   the same pass run by one context, with bus faults.           *)
(* SpecSolax  the Solax engine: init_inverter and poll_data, exchange by   *)
(*            exchange, over frames drawn from a bounded set.              *)
(* SpecCalc   the frame builders and the checksum functions applied to     *)
(*            inputs drawn from bounded sets.                              *)
(***************************************************************************)
EXTENDS Integers, Sequences, FiniteSets, TLC

VARIABLES
    \* ---- scheduler (events.rs) ----
    pc,            \* per timer-callback context: where it is in inverter_poll_task
    idx,           \* per context: index into the inverter Vec (for .. in iter_mut())
    step,          \* per context: which exchange of poll_inverter comes next (0..23)
    pollResult,    \* per context: result of the last poll_inverter call
    didIO,         \* per context: this invocation touched the bus
    didMutate,     \* per context: this invocation wrote to an inverter
    didPublish,    \* per context: this invocation called mqtt_publish
    skipped,       \* per context: how the last finished invocation ended
    auroraLock,    \* holder of aurora_arc_mutex (0: free)
    invertersLock, \* holder of inverters_arc_mutex (0: free)
    \* ---- Aurora device model (aurora.rs) ----
    inverters,     \* Vec<AuroraInverter>
    \* ---- the bus and the inverters behind it (environment) ----
    reading,       \* what the inverters currently report
    transportLost, \* every exchange fails from now on
    faults,        \* transient exchange failures injected so far
    ticksFired,    \* timer expirations so far
    passCount,     \* poll passes begun so far (the logical clock of Instant::now())
    lastExchange,  \* the exchange whose result poll_inverter is handling
    \* ---- the publisher (idf_mqtt.rs), as seen by the pass ----
    pubLog,        \* per inverter index: pairs handed to mqtt_publish in the pass
    uptimeCount,   \* uptime messages handed to mqtt_publish in the pass
    pollOrder,     \* inverter ids polled in the pass, in order
    passResult,    \* per inverter index: how its poll_inverter ended in the pass
    passSnapshot,  \* the inverter Vec as it was when the pass began
    \* ---- Solax engine (solax_x1_air.rs) ----
    sx,            \* the SolaxX1Air value and the position inside init_inverter
    \* ---- the frame builders and checksum functions, applied on their own ----
    calc           \* the function applied last, its input and its result

schedVars == <<pc, idx, step, pollResult, didIO, didMutate, didPublish, skipped,
               auroraLock, invertersLock, inverters, reading, transportLost,
               faults, ticksFired, passCount, lastExchange, pubLog, uptimeCount,
               pollOrder, passResult, passSnapshot, calc>>
vars == <<schedVars, sx>>

(***************************************************************************)
(* Bounds of the model.                                                    *)
(***************************************************************************)
MaxTicks == 2          \* timer expirations explored
NumContexts == 2       \* timer callbacks that may be in flight at once (Spec)
MaxOverlapFaults == 0  \* transient exchange failures under Spec (besides total
                       \* loss and non-positive readings)
MaxFaults == 1         \* transient exchange failures under SpecPass

Contexts == 1..NumContexts

(***************************************************************************)
(* Numbers: f32 and i32 from bytes 2..5 of a response (aurora.rs 580-586). *)
(* A float is kept as its class, its sign and its magnitude in millionths, *)
(* decoded from the IEEE-754 bits; magnitudes of 2048 and more saturate.   *)
(***************************************************************************)
RECURSIVE Pow2(_)
Pow2(n) == IF n <= 0 THEN 1 ELSE 2 * Pow2(n - 1)

Float(cls, sign, micro) == [cls |-> cls, sign |-> sign, micro |-> micro]
FloatZero == Float("num", 0, 0)

\* f32::from_be_bytes on the four bytes b[1..4]
f32_from_be_bytes(b) ==
    LET neg  == b[1] >= 128
        e    == (b[1] % 128) * 2 + (b[2] \div 128)
        m    == (b[2] % 128) * 65536 + b[3] * 256 + b[4]
        sgn  == IF neg THEN -1 ELSE 1
        big  == 8388608 + m                 \* 2^23 + mantissa
        \* value = big * 2^(e-150); kept to 10 fractional bits
        whole == IF e >= 150 THEN 2047
                 ELSE IF 150 - e > 23 THEN 0 ELSE big \div Pow2(150 - e)
        frac10 == IF e >= 150 \/ 150 - e > 33 THEN 0
                  ELSE IF 150 - e >= 10
                       THEN (big \div Pow2(150 - e - 10)) % 1024
                       ELSE 0
        mag  == IF e > 137 THEN 2047 * 1000000
                ELSE whole * 1000000 + (frac10 * 1000000) \div 1024
    IN  IF e = 255 THEN (IF m = 0 THEN Float("inf", sgn, 0) ELSE Float("nan", 0, 0))
        ELSE IF e = 0 THEN Float("num", IF m = 0 THEN 0 ELSE sgn, 0)
        ELSE Float("num", sgn, sgn * mag)

\* i32::from_be_bytes on the four bytes b[1..4]; the model's readings stay
\* within 24 bits, where the later `as f32` is exact
i32_from_be_bytes(b) ==
    LET low == b[2] * 65536 + b[3] * 256 + b[4]
    IN  IF b[1] >= 128 THEN ((b[1] - 256) * 16777216) + low
        ELSE b[1] * 16777216 + low

convert_bytes_to_f32(response) ==
    f32_from_be_bytes(<<response[3], response[4], response[5], response[6]>>)

convert_bytes_to_i32(response) ==
    i32_from_be_bytes(<<response[3], response[4], response[5], response[6]>>)

\* f * 0.001
ScaleMilli(f) ==
    IF f.cls = "num"
    THEN LET q == IF f.micro >= 0 THEN f.micro \div 1000 ELSE -((-f.micro) \div 1000)
         IN Float("num", f.sign, q)
    ELSE f

\* `f > 0.0`
FloatGtZero(f) == (f.cls = "inf" /\ f.sign = 1) \/ (f.cls = "num" /\ f.sign = 1)

(***************************************************************************)
(* Aurora device model (aurora.rs 21-104, 327-434).                        *)
(***************************************************************************)
\* variant: each input's voltage is asked before its current
PollRequests_voltage_first ==
    <<"Grid", "Current", "GridPower", "Frequency", "Vbulk", "Ileak", "IleakDc",
      "Pin1", "Pin2", "InverterTemperature", "BoosterTemperature",
      "Input1Voltage", "Input1Current", "Input2Voltage", "Input2Current",
      "PowerPeak", "PowerPeakToday">>

\* the requests poll_data issues, in its order (aurora.rs 184-203)
PollRequests ==
    <<"Grid", "Current", "GridPower", "Frequency", "Vbulk", "Ileak", "IleakDc",
      "Pin1", "Pin2", "InverterTemperature", "BoosterTemperature",
      "Input1Current", "Input1Voltage", "Input2Current", "Input2Voltage",
      "PowerPeak", "PowerPeakToday">>

\* the requests request_energy_totals issues, in its order (aurora.rs 218-225)
EnergyRequests == <<"Day", "Week", "Month", "Year", "Total", "SinceReset">>

\* the serialized fields of Dsp (aurora.rs 327-345); the fields marked
\* skip_serializing are never requested by poll_data and stay 0.0
DspFields ==
    {"grid", "current", "gridpower", "frequency", "vbulk", "ileakdc", "ileak",
     "pin1", "pin2", "invertertemperature", "boostertemperature",
     "input1voltage", "input1current", "input2voltage", "input2current",
     "powerpeak", "powerpeaktoday"}

EnergyFields == {"day", "week", "month", "year", "total", "since_reset"}

Dsp_default == [f \in DspFields |-> FloatZero]
EnergyTotals_default == [f \in EnergyFields |-> FloatZero]

\* variant: the two leakage currents are stored in each other's field
Dsp_update_value_leak_swapped(data, command, response) ==
    LET f == convert_bytes_to_f32(response)
    IN  CASE command = "Grid" -> [data EXCEPT !["grid"] = f]
          [] command = "Current" -> [data EXCEPT !["current"] = f]
          [] command = "GridPower" -> [data EXCEPT !["gridpower"] = ScaleMilli(f)]
          [] command = "Frequency" -> [data EXCEPT !["frequency"] = f]
          [] command = "Vbulk" -> [data EXCEPT !["vbulk"] = f]
          [] command = "IleakDc" -> [data EXCEPT !["ileak"] = f]
          [] command = "Ileak" -> [data EXCEPT !["ileakdc"] = f]
          [] command = "Pin1" -> [data EXCEPT !["pin1"] = ScaleMilli(f)]
          [] command = "Pin2" -> [data EXCEPT !["pin2"] = ScaleMilli(f)]
          [] command = "InverterTemperature" -> [data EXCEPT !["invertertemperature"] = f]
          [] command = "BoosterTemperature" -> [data EXCEPT !["boostertemperature"] = f]
          [] command = "Input1Voltage" -> [data EXCEPT !["input1voltage"] = f]
          [] command = "Input1Current" -> [data EXCEPT !["input1current"] = f]
          [] command = "Input2Voltage" -> [data EXCEPT !["input2voltage"] = f]
          [] command = "Input2Current" -> [data EXCEPT !["input2current"] = f]
          [] command = "PowerPeak" -> [data EXCEPT !["powerpeak"] = ScaleMilli(f)]
          [] command = "PowerPeakToday" -> [data EXCEPT !["powerpeaktoday"] = ScaleMilli(f)]
          [] OTHER -> data

\* Dsp::update_value (aurora.rs 401-433)
Dsp_update_value(data, command, response) ==
    LET f == convert_bytes_to_f32(response)
    IN  CASE command = "Grid" -> [data EXCEPT !["grid"] = f]
          [] command = "Current" -> [data EXCEPT !["current"] = f]
          [] command = "GridPower" -> [data EXCEPT !["gridpower"] = ScaleMilli(f)]
          [] command = "Frequency" -> [data EXCEPT !["frequency"] = f]
          [] command = "Vbulk" -> [data EXCEPT !["vbulk"] = f]
          [] command = "IleakDc" -> [data EXCEPT !["ileakdc"] = f]
          [] command = "Ileak" -> [data EXCEPT !["ileak"] = f]
          [] command = "Pin1" -> [data EXCEPT !["pin1"] = ScaleMilli(f)]
          [] command = "Pin2" -> [data EXCEPT !["pin2"] = ScaleMilli(f)]
          [] command = "InverterTemperature" -> [data EXCEPT !["invertertemperature"] = f]
          [] command = "BoosterTemperature" -> [data EXCEPT !["boostertemperature"] = f]
          [] command = "Input1Voltage" -> [data EXCEPT !["input1voltage"] = f]
          [] command = "Input1Current" -> [data EXCEPT !["input1current"] = f]
          [] command = "Input2Voltage" -> [data EXCEPT !["input2voltage"] = f]
          [] command = "Input2Current" -> [data EXCEPT !["input2current"] = f]
          [] command = "PowerPeak" -> [data EXCEPT !["powerpeak"] = ScaleMilli(f)]
          [] command = "PowerPeakToday" -> [data EXCEPT !["powerpeaktoday"] = ScaleMilli(f)]
          [] OTHER -> data

\* variant: the decoded value is added to the total
EnergyTotals_update_value_accumulate(energy, command, response) ==
    LET i == convert_bytes_to_i32(response)
        k == CASE command = "Day" -> "day"
               [] command = "Week" -> "week"
               [] command = "Month" -> "month"
               [] command = "Year" -> "year"
               [] command = "Total" -> "total"
               [] command = "SinceReset" -> "since_reset"
        sum == energy[k].micro + i * 1000
    IN  [energy EXCEPT ![k] = Float("num", IF sum > 0 THEN 1 ELSE IF sum < 0 THEN -1 ELSE 0,
                                    sum)]

\* EnergyTotals::update_value (aurora.rs 41-56): i32 as f32 * 0.001
EnergyTotals_update_value(energy, command, response) ==
    LET i == convert_bytes_to_i32(response)
        f == Float("num", IF i > 0 THEN 1 ELSE IF i < 0 THEN -1 ELSE 0, i * 1000)
    IN  CASE command = "Day" -> [energy EXCEPT !["day"] = f]
          [] command = "Week" -> [energy EXCEPT !["week"] = f]
          [] command = "Month" -> [energy EXCEPT !["month"] = f]
          [] command = "Year" -> [energy EXCEPT !["year"] = f]
          [] command = "Total" -> [energy EXCEPT !["total"] = f]
          [] command = "SinceReset" -> [energy EXCEPT !["since_reset"] = f]

\* AuroraInverter::new (aurora.rs 90-100); lastmessage is a logical time,
\* -1 standing for "60 s before construction"
AuroraInverter_new(id) ==
    [data |-> Dsp_default,
     availability |-> [status |-> "Offline"],
     id |-> id,
     energy |-> EnergyTotals_default,
     lastmessage |-> -1]

\* main.rs 130-133
InverterIds == <<2, 3>>
NumInverters == Len(InverterIds)

(***************************************************************************)
(* The bus. An exchange is flush, write, read (aurora.rs 282-310); the     *)
(* environment decides how it ends.                                        *)
(***************************************************************************)
\* what the inverters may report: bytes 2..5 of a Measure response and of a
\* CumulatedEnergy response. The sun moves between two passes: the positive
\* readings alternate.
PositiveReadings ==
    <<[measure |-> <<67, 102, 0, 0>>, energy |-> <<0, 0, 5, 220>>],   \* 230.0, 1500
      [measure |-> <<63, 128, 0, 0>>, energy |-> <<0, 0, 0, 2>>]>>    \* 1.0, 2

NonPositiveReadings ==
    {[measure |-> <<0, 0, 0, 0>>, energy |-> <<0, 0, 0, 0>>],        \* 0.0, 0
     [measure |-> <<191, 128, 0, 0>>, energy |-> <<255, 255, 255, 255>>], \* -1.0, -1
     [measure |-> <<127, 192, 0, 0>>, energy |-> <<0, 0, 0, 1>>]}    \* NaN, 1

ReadingsAt(n) ==
    {PositiveReadings[((n - 1) % Len(PositiveReadings)) + 1]} \cup NonPositiveReadings

\* state bytes a failing reply may carry
BadStateBytes == {51, 58, 77}

Response(state, b) == <<state, 0, b[1], b[2], b[3], b[4], 0, 0>>

\* variant: Retry (58) is taken for OK
parse_retry_ok(code) ==
    CASE code = 0 -> "OK"
      [] code = 51 -> "NotImplemented"
      [] code = 52 -> "NotExist"
      [] code = 53 -> "OutOfRange"
      [] code = 54 -> "EEpromError"
      [] code = 55 -> "NotServiceMode"
      [] code = 56 -> "InternalMicroError"
      [] code = 57 -> "NotExecuted"
      [] code = 58 -> "OK"
      [] OTHER -> "Unknown"

\* Aurora::parse (aurora.rs 312-325)
parse(code) ==
    CASE code = 0 -> "OK"
      [] code = 51 -> "NotImplemented"
      [] code = 52 -> "NotExist"
      [] code = 53 -> "OutOfRange"
      [] code = 54 -> "EEpromError"
      [] code = 55 -> "NotServiceMode"
      [] code = 56 -> "InternalMicroError"
      [] code = 57 -> "NotExecuted"
      [] code = 58 -> "Retry"
      [] OTHER -> "Unknown"

\* Aurora::response_error_check (aurora.rs 272-280): TRUE when Ok
response_error_check(response) == parse(response[1]) = "OK"

\* how an exchange may end: the flush, the write or the read fails, or the
\* inverter answers 8 bytes
Outcome(kind, response) == [kind |-> kind, response |-> response]
NoResponse == <<0, 0, 0, 0, 0, 0, 0, 0>>

\* Aurora::send_and_recv (aurora.rs 282-294): the bus operations performed
\* and whether it returned Ok
send_and_recv(o) ==
    CASE o.kind = "flush" -> [ok |-> FALSE, ops |-> <<"flush">>]
      [] o.kind = "write" -> [ok |-> FALSE, ops |-> <<"flush", "write">>]
      [] o.kind = "timeout" ->
            [ok |-> FALSE, ops |-> <<"flush", "write", "flush", "read">>]
      [] OTHER -> [ok |-> TRUE, ops |-> <<"flush", "write", "flush", "read">>]

\* Aurora::request_data (aurora.rs 241-270)
request_data(o) ==
    LET sr == send_and_recv(o)
    IN  IF ~sr.ok THEN [ok |-> FALSE, err |-> o.kind, response |-> NoResponse]
        ELSE IF ~response_error_check(o.response)
             THEN [ok |-> FALSE, err |-> parse(o.response[1]), response |-> NoResponse]
             ELSE [ok |-> TRUE, err |-> "none", response |-> o.response]

\* an availability check that takes 0.0 V for a live grid (>= in place of >)
init_inverter_ge(inverter, o, now) ==
    LET r == request_data(o)
        f == convert_bytes_to_f32(r.response)
    IN  IF ~r.ok THEN [inverter |-> inverter, ok |-> FALSE, err |-> r.err]
        ELSE IF FloatGtZero(f) \/ (f.cls = "num" /\ f.sign = 0)
             THEN [inverter |-> [inverter EXCEPT !.availability = [status |-> "Online"],
                                                 !.lastmessage = now],
                   ok |-> TRUE, err |-> "none"]
             ELSE [inverter |-> [inverter EXCEPT !.availability = [status |-> "Offline"]],
                   ok |-> FALSE, err |-> "No response from inverter"]

\* variant: the result of the availability check is dropped, the poll goes on
init_inverter_unchecked(inverter, o, now) ==
    LET r == request_data(o)
    IN  IF ~r.ok THEN [inverter |-> inverter, ok |-> TRUE, err |-> "none"]
        ELSE IF FloatGtZero(convert_bytes_to_f32(r.response))
             THEN [inverter |-> [inverter EXCEPT !.availability = [status |-> "Online"],
                                                 !.lastmessage = now],
                   ok |-> TRUE, err |-> "none"]
             ELSE [inverter |-> [inverter EXCEPT !.availability = [status |-> "Offline"]],
                   ok |-> TRUE, err |-> "none"]

\* Aurora::init_inverter (aurora.rs 125-146), given how its exchange ended
init_inverter(inverter, o, now) ==
    LET r == request_data(o)
    IN  IF ~r.ok THEN [inverter |-> inverter, ok |-> FALSE, err |-> r.err]
        ELSE IF FloatGtZero(convert_bytes_to_f32(r.response))
             THEN [inverter |-> [inverter EXCEPT !.availability = [status |-> "Online"],
                                                 !.lastmessage = now],
                   ok |-> TRUE, err |-> "none"]
             ELSE [inverter |-> [inverter EXCEPT !.availability = [status |-> "Offline"]],
                   ok |-> FALSE, err |-> "No response from inverter"]

\* variant: a failed measurement request is skipped and the loop goes on
poll_data_step_continue(inverter, request, o, now) ==
    LET r == request_data(o)
    IN  IF ~r.ok THEN [inverter |-> inverter, ok |-> TRUE, err |-> "none"]
        ELSE [inverter |-> [inverter EXCEPT
                               !.data = Dsp_update_value(@, request, r.response),
                               !.lastmessage = now],
              ok |-> TRUE, err |-> "none"]

\* one iteration of the loop of Aurora::poll_data (aurora.rs 206-209)
poll_data_step(inverter, request, o, now) ==
    LET r == request_data(o)
    IN  IF ~r.ok THEN [inverter |-> inverter, ok |-> FALSE, err |-> r.err]
        ELSE [inverter |-> [inverter EXCEPT
                               !.data = Dsp_update_value(@, request, r.response),
                               !.lastmessage = now],
              ok |-> TRUE, err |-> "none"]

\* one iteration of the loop of Aurora::request_energy_totals (aurora.rs 228-235)
request_energy_totals_step(inverter, request, o, now) ==
    LET r == request_data(o)
    IN  IF ~r.ok THEN [inverter |-> inverter, ok |-> FALSE, err |-> r.err]
        ELSE [inverter |-> [inverter EXCEPT
                               !.energy = EnergyTotals_update_value(@, request, r.response),
                               !.lastmessage = now],
              ok |-> TRUE, err |-> "none"]

\* Aurora::poll_inverter (aurora.rs 147-157), one exchange at a time: exchange
\* 0 is init_inverter's, 1..17 are poll_data's, 18..23 request_energy_totals'
LastStep == Len(PollRequests) + Len(EnergyRequests)

poll_inverter_step(inverter, s, o, now) ==
    IF s = 0 THEN init_inverter(inverter, o, now)
    ELSE IF s <= Len(PollRequests)
         THEN poll_data_step(inverter, PollRequests[s], o, now)
         ELSE request_energy_totals_step(inverter,
                                         EnergyRequests[s - Len(PollRequests)], o, now)

\* which reply the inverter gives to exchange s under reading rd
ReplyPayload(s, rd) == IF s <= Len(PollRequests) THEN rd.measure ELSE rd.energy

(***************************************************************************)
(* Flattening a device for the publisher (aurora.rs 159-180). serde_json   *)
(* writes a non-finite f32 as null; Display of a JSON string keeps its     *)
(* quotes. The pairs of one record come out of a HashMap, in no fixed      *)
(* order: a device's pairs are a set.                                      *)
(***************************************************************************)
JsonOfFloat(f) ==
    IF f.cls = "num" THEN [kind |-> "number", num |-> f.micro, text |-> ""]
    ELSE [kind |-> "null", num |-> 0, text |-> "null"]

JsonOfString(s) == [kind |-> "string", num |-> 0, text |-> "\"" \o s \o "\""]

MqttMessage(topic, payload) == [topic |-> topic, payload |-> payload]

MQTT_TOPIC_NAME == "prefix"

Topic(mqtt_topic_name, id, key) == <<mqtt_topic_name, id, key>>

\* variant: the availability record is not flattened
data_to_vec_mqtt_json_no_status(inverter, mqtt_topic_name) ==
    {MqttMessage(Topic(mqtt_topic_name, inverter.id, k), JsonOfFloat(inverter.data[k]))
        : k \in DspFields}
    \cup {MqttMessage(Topic(mqtt_topic_name, inverter.id, k), JsonOfFloat(inverter.energy[k]))
        : k \in EnergyFields}

data_to_vec_mqtt_json(inverter, mqtt_topic_name) ==
    {MqttMessage(Topic(mqtt_topic_name, inverter.id, k), JsonOfFloat(inverter.data[k]))
        : k \in DspFields}
    \cup {MqttMessage(Topic(mqtt_topic_name, inverter.id, k), JsonOfFloat(inverter.energy[k]))
        : k \in EnergyFields}
    \cup {MqttMessage(Topic(mqtt_topic_name, inverter.id, "status"),
                      JsonOfString(inverter.availability.status))}


(***************************************************************************)
(* The Solax X1 Air engine (solax_x1_air.rs). Frames are byte sequences;   *)
(* a u32 is kept as its two 16-bit halves <<high, low>>.                   *)
(***************************************************************************)
RECURSIVE SumBytes(_)
SumBytes(payload) ==
    IF payload = <<>> THEN 0 ELSE Head(payload) + SumBytes(Tail(payload))

\* variant: the sum leaves out the first byte
calc_partial_crc_tail(payload) ==
    LET val == SumBytes(IF payload = <<>> THEN payload ELSE Tail(payload)) % 65536
    IN  <<val \div 256, val % 256>>

\* calc_partial_crc (solax_x1_air.rs 585-591): the u16 byte sum, high byte
\* first; the frames of the engine runs sum to less than 65536 (for longer
\* buffers see calc_partial_crc_build)
calc_partial_crc(payload) ==
    LET val == SumBytes(payload) % 65536
    IN  <<val \div 256, val % 256>>

\* the loop of calc_partial_crc (solax_x1_air.rs 586-589): `val += *i as u16`
\* from byte i on. A u16 addition that passes 65535 panics in a build with
\* overflow checks (the debug profile) and wraps in a build without them
\* (the release profile); -1 stands for the panic.
RECURSIVE u16_block(_, _, _, _, _)
u16_block(payload, i, last, val, overflow_checks) ==
    IF i > last THEN val
    ELSE LET next == val + payload[i]
         IN  IF next > 65535
             THEN IF overflow_checks THEN -1
                  ELSE u16_block(payload, i + 1, last, next - 65536, overflow_checks)
             ELSE u16_block(payload, i + 1, last, next, overflow_checks)

\* the same loop over the whole payload, evaluated sixteen bytes at a time
RECURSIVE u16_sum(_, _, _, _)
u16_sum(payload, i, val, overflow_checks) ==
    IF i > Len(payload) THEN val
    ELSE LET last == IF i + 15 < Len(payload) THEN i + 15 ELSE Len(payload)
             v == u16_block(payload, i, last, val, overflow_checks)
         IN  IF v < 0 THEN -1
             ELSE IF last >= Len(payload) THEN v
             ELSE u16_sum(payload, last + 1, v, overflow_checks)

\* calc_partial_crc (solax_x1_air.rs 585-591) in a build with or without
\* overflow checks: whether it panicked, and the two bytes it returns
calc_partial_crc_build(payload, overflow_checks) ==
    LET val == u16_sum(payload, 1, 0, overflow_checks)
    IN  IF val < 0 THEN [panic |-> TRUE, crc |-> <<>>]
        ELSE [panic |-> FALSE, crc |-> <<val \div 256, val % 256>>]

\* extract_crc (solax_x1_air.rs 581-583): the last two bytes
extract_crc(payload) ==
    IF Len(payload) >= 2 THEN SubSeq(payload, Len(payload) - 1, Len(payload))
    ELSE payload

\* check_crc (solax_x1_air.rs 593-603): TRUE when Ok; it panics on a frame
\* shorter than two bytes, which send_and_recv never passes
check_crc(i_payload) ==
    calc_partial_crc(SubSeq(i_payload, 1, Len(i_payload) - 2)) = extract_crc(i_payload)

WithCrc(message) == message \o calc_partial_crc(message)

\* the request builders (solax_x1_air.rs 539-575)
send_broadcast_message == WithCrc(<<170, 85, 1, 0, 0, 0, 16, 0, 0>>)
request_live_data == WithCrc(<<170, 85, 1, 0, 0, 10, 17, 2, 0>>)
request_query_id_data == WithCrc(<<170, 85, 1, 0, 0, 10, 17, 3, 0>>)
request_config_data == WithCrc(<<170, 85, 1, 0, 0, 10, 17, 4, 0>>)

\* extract_serial_number (solax_x1_air.rs 577-579): payload[9..23]; the slice
\* panics on a payload shorter than 23 bytes
\* variant: the serial number is taken one byte early
extract_serial_number_from_8(payload) == SubSeq(payload, 9, 22)

extract_serial_number(payload) == SubSeq(payload, 10, 23)

\* register_inverter (solax_x1_air.rs 545-557)
register_inverter(payload, inverter_address) ==
    WithCrc(<<170, 85, 0, 0, 0, 0, 16, 1, 15>> \o extract_serial_number(payload)
            \o <<inverter_address>>)

\* BigEndian::read_u16(&response[off..]) and read_u32, off counted from 0
read_u16(response, off) == response[off + 1] * 256 + response[off + 2]
\* variant: only the low word of a 32-bit field is read
read_u32_low_word(response, off) == <<0, read_u16(response, off + 2)>>
read_u32(response, off) == <<read_u16(response, off), read_u16(response, off + 2)>>

RunModes == <<"Wait", "Check", "Normal", "Fault", "PermanentFault", "UpdateMode">>
ErrorCodes == <<"None", "MainsLostFault", "GridVoltFault", "GridFreqFault",
                "PvVoltFault", "IsolationFault", "TemperatureOverFault", "FanFault",
                "OtherDeviceFault">>

\* LiveData::decode (solax_x1_air.rs 345-381); it reads up to byte 58
LiveData_decode(response) ==
    [temperature |-> read_u16(response, 9),
     energy_today |-> read_u16(response, 11),
     dc1_voltage |-> read_u16(response, 13),
     dc2_voltage |-> read_u16(response, 15),
     dc1_current |-> read_u16(response, 17),
     dc2_current |-> read_u16(response, 19),
     current |-> read_u16(response, 21),
     voltage |-> read_u16(response, 23),
     frequency |-> read_u16(response, 25),
     active_power |-> read_u16(response, 27),
     import_active |-> read_u32(response, 31),
     runtime_total |-> read_u32(response, 35),
     run_mode |-> LET v == read_u16(response, 39)
                  IN IF v < Len(RunModes) THEN RunModes[v + 1] ELSE "Unknown",
     error_code |-> LET v == read_u32(response, 55)
                    IN IF v[1] = 0 /\ v[2] < Len(ErrorCodes) THEN ErrorCodes[v[2] + 1]
                       ELSE "Unknown"]
LiveData_decode_needs == 59

LiveData_default ==
    [temperature |-> 0, energy_today |-> 0, dc1_voltage |-> 0, dc2_voltage |-> 0,
     dc1_current |-> 0, dc2_current |-> 0, current |-> 0, voltage |-> 0,
     frequency |-> 0, active_power |-> 0, import_active |-> <<0, 0>>,
     runtime_total |-> <<0, 0>>, run_mode |-> "Unknown", error_code |-> "Unknown"]

\* QueryID::decode (solax_x1_air.rs 396-406); it reads up to byte 65
QueryID_decode(response) ==
    [inverter_phases |-> response[10],
     bus_power |-> SubSeq(response, 11, 15),
     firmware_version |-> SubSeq(response, 17, 20),
     module_name |-> SubSeq(response, 22, 34),
     factory_name |-> SubSeq(response, 36, 48),
     serial_number |-> SubSeq(response, 50, 62),
     rated_bus_voltage |-> SubSeq(response, 64, 66)]
QueryID_decode_needs == 66

QueryID_default ==
    [inverter_phases |-> 0, bus_power |-> <<>>, firmware_version |-> <<>>,
     module_name |-> <<>>, factory_name |-> <<>>, serial_number |-> <<>>,
     rated_bus_voltage |-> <<>>]

\* the u16 fields of QueryConfig and their offsets (solax_x1_air.rs 455-534)
ConfigU16 ==
    [wVpvStart |-> 9, wTimeStart |-> 11, wVacMinProtect |-> 13, wVacMaxProtect |-> 15,
     wFacMinProtect |-> 17, wFacMaxProtect |-> 19, wDciLimits |-> 21,
     wGrid10MinAvgProtect |-> 23, wVacMinSlowProtect |-> 25,
     wVacMaxSlowProtect |-> 27, wFacMinSlowProtect |-> 29, wFacMaxSlowProtect |-> 31,
     Qpower_set |-> 41, WFreqSetPoint |-> 43, WFreqDroopRate |-> 45, QuVupRate |-> 47,
     QuVlowRate |-> 49, WPowerLimitsPercent |-> 51, WWgra |-> 53, wWv2 |-> 55,
     wWv3 |-> 57, wWv4 |-> 59, wQurangeV1 |-> 61, wQurangeV4 |-> 63,
     BVoltPowerLimtit |-> 65, WPowerManagerEnable |-> 67,
     WGlobalSeachMPPTStrartFlg |-> 69, WFrqProtectRestrictive |-> 71,
     WQuDelayTimer |-> 73, WFreqActivePowerDelayTimer |-> 75]

\* the u8 fields of QueryConfig and their offsets
ConfigU8 ==
    [wPowerfactor_mode |-> 35, wPowerfactor_data |-> 36, wUpperLimit |-> 37,
     wLowerLimit |-> 38, wPowerLow |-> 39, wPowerUp |-> 40]

\* the 41 grid codes of Safety, by code (solax_x1_air.rs 467-510)
SafetyNames ==
    <<"VDE0126", "VDE4105", "AS4777", "G98", "C10_11", "TOR", "EN50438_NL",
      "Denmark2019_W", "CEB", "Cyprus2019", "cNRS097_2_1", "VDE0126_Greece",
      "UTE_C15_712_Fr", "IEC61727", "G99", "CQC", "VDE0126_Greece_is",
      "C15_712_Fr_island_50", "C15_712_Fr_island_60", "Guyana", "MEA_Thailand",
      "PEA_Thailand", "cNewZealand", "cIreland", "cCE10_21", "cRD1699",
      "EN50438_Sweden", "EN50549_PL", "Czech_PPDS", "EN50438_Norway",
      "EN50438_Portug", "cCQC_WideRange", "BRAZIL", "EN50438_CEZ", "IEC_Chile",
      "Sri_Lanka", "BRAZIL_240", "EN50549_SK", "EN50549_EU", "G98_NI",
      "Denmark2019_E">>

\* QueryConfig::decode (solax_x1_air.rs 453-536); it reads up to byte 76
QueryConfig_decode(response) ==
    [u16 |-> [k \in DOMAIN ConfigU16 |-> read_u16(response, ConfigU16[k])],
     u8 |-> [k \in DOMAIN ConfigU8 |-> response[ConfigU8[k] + 1]],
     wSafety |-> LET v == read_u16(response, 33)
                 IN IF v < Len(SafetyNames) THEN SafetyNames[v + 1] ELSE "Unknown"]
QueryConfig_decode_needs == 77

QueryConfig_default ==
    [u16 |-> [k \in DOMAIN ConfigU16 |-> 0],
     u8 |-> [k \in DOMAIN ConfigU8 |-> 0],
     wSafety |-> "Unknown"]

Data_default ==
    [livedata |-> LiveData_default, id |-> QueryID_default, config |-> QueryConfig_default]

\* read_all (solax_x1_air.rs 197-212): bytes are taken from the receive
\* buffer rx into buf until rx is empty or a chained frame is detected
RECURSIVE read_all(_, _)
read_all(buf, rx) ==
    IF rx = <<>> THEN [buf |-> buf, rx |-> rx]
    ELSE LET byte == Head(rx)
         IN  IF Len(buf) > 5 /\ byte = 85 /\ buf[Len(buf)] = 170
             THEN [buf |-> SubSeq(buf, 1, Len(buf) - 1), rx |-> Tail(rx)]
             ELSE read_all(Append(buf, byte), Tail(rx))

\* flush (solax_x1_air.rs 225-229): what it leaves in the receive buffer
flush(rx) == read_all(<<>>, rx).rx

\* SolaxX1Air::new (solax_x1_air.rs 31-40), the receive buffer, and where
\* the engine is: idle, or inside init_inverter before one of its exchanges.
\* Of the call in progress (or the last one) are kept: the status at entry,
\* the status after the broadcast/registration step (mid), the outcome of
\* each exchange (hist) and the frame the last exchange wrote (sent).
SolaxInit ==
    [status |-> "Offline", data |-> Data_default, serial |-> <<0>>,
     rx |-> <<>>, pc |-> "idle", status_counter |-> 0,
     response |-> <<>>, result |-> "none", calls |-> 0,
     entry |-> "Offline", mid |-> "Offline", hist |-> <<>>, sent |-> <<>>]

\* what the inverter side may put on the bus in answer to a request
SerialNumber == <<88, 66, 51, 48, 50, 49, 56, 52, 57, 48, 49, 50, 51, 52>>
RegisterRequestFrame == WithCrc(<<170, 85, 0, 255, 1, 0, 16, 128, 14>> \o SerialNumber)
AddressConfirmFrame == WithCrc(<<170, 85, 0, 10, 0, 0, 16, 129, 1, 6>>)
LiveDataFrame ==
    WithCrc(<<170, 85, 0, 10, 1, 0, 17, 130, 50>>
            \o [i \in 1..50 |-> CASE i = 2 -> 35      \* temperature 35
                                  [] i = 4 -> 12      \* energy today
                                  [] i = 15 -> 9      \* voltage 0x0900
                                  [] i = 32 -> 2      \* run mode Normal
                                  [] OTHER -> 0])
QueryIdFrame ==
    WithCrc(<<170, 85, 0, 10, 1, 0, 17, 131, 58>>
            \o [i \in 1..58 |-> IF i = 1 THEN 1 ELSE 48 + (i % 10)])
QueryConfigFrame ==
    WithCrc(<<170, 85, 0, 10, 1, 0, 17, 132, 68>>
            \o [i \in 1..68 |-> IF i = 26 THEN 3 ELSE i % 7])
BadCrcFrame == [LiveDataFrame EXCEPT ![Len(LiveDataFrame)] = (@ + 1) % 256]
BadPreambleFrame == WithCrc(<<0, 0, 0, 10, 1, 0, 17, 130, 0>>)
\* only the first preamble byte is wrong
HalfPreambleFrame ==
    WithCrc([i \in 1..(Len(LiveDataFrame) - 2) |->
                IF i = 1 THEN 171 ELSE LiveDataFrame[i]])
WriteGroupFrame == WithCrc(<<170, 85, 0, 10, 1, 0, 18, 0, 0>>)
ShortLiveDataFrame == WithCrc(<<170, 85, 0, 10, 1, 0, 17, 130, 0>>)
SixByteFrame == WithCrc(<<170, 85, 0, 10>>)

SolaxReplies ==
    {<<>>, <<170, 85, 1>>, RegisterRequestFrame, AddressConfirmFrame, LiveDataFrame,
     QueryIdFrame, QueryConfigFrame, BadCrcFrame, BadPreambleFrame, HalfPreambleFrame,
     WriteGroupFrame, ShortLiveDataFrame, SixByteFrame,
     AddressConfirmFrame \o LiveDataFrame}

\* how the port behaves during one exchange: "ok"; "count": rx.count()
\* fails in flush; "write": the write fails; "none": rx.count() fails in
\* waiting_data
SolaxEnv ==
    {[hw |-> "ok", reply |-> r] : r \in SolaxReplies}
    \cup {[hw |-> h, reply |-> <<>>] : h \in {"count", "write", "none"}}

SxResult(status, rx, data, ok, response, why) ==
    [status |-> status, rx |-> rx, data |-> data, ok |-> ok, response |-> response,
     why |-> why]

\* variant: an identity response also clears the live data
solax_dispatch_id_clears_live(status, rx, data, response) ==
    IF Len(response) < 7 THEN SxResult(status, rx, data, FALSE, response, "panic")
    ELSE IF response[7] \in {16, 17} /\ Len(response) < 8
    THEN SxResult(status, rx, data, FALSE, response, "panic")
    ELSE IF response[7] = 16 /\ response[8] \in {128, 129, 130}
    THEN SxResult(status, rx, data, TRUE, response, "register")
    ELSE IF response[7] = 17 /\ response[8] = 130
    THEN IF Len(response) < LiveData_decode_needs
         THEN SxResult(status, rx, data, FALSE, response, "panic")
         ELSE SxResult(status, rx, [data EXCEPT !.livedata = LiveData_decode(response)],
                       TRUE, response, "livedata")
    ELSE IF response[7] = 17 /\ response[8] = 131
    THEN IF Len(response) < QueryID_decode_needs
         THEN SxResult(status, rx, data, FALSE, response, "panic")
         ELSE SxResult(status, rx, [data EXCEPT !.id = QueryID_decode(response),
                                                !.livedata = LiveData_default],
                       TRUE, response, "id")
    ELSE IF response[7] = 17 /\ response[8] = 132
    THEN IF Len(response) < QueryConfig_decode_needs
         THEN SxResult(status, rx, data, FALSE, response, "panic")
         ELSE SxResult(status, rx, [data EXCEPT !.config = QueryConfig_decode(response)],
                       TRUE, response, "config")
    ELSE SxResult(status, rx, data, FALSE, response, "Bad data?")

\* the tail of send_and_recv: the control group and code of an accepted frame
\* (solax_x1_air.rs 140-195)
solax_dispatch(status, rx, data, response) ==
    IF Len(response) < 7 THEN SxResult(status, rx, data, FALSE, response, "panic")
    ELSE IF response[7] \in {16, 17} /\ Len(response) < 8
    THEN SxResult(status, rx, data, FALSE, response, "panic")
    ELSE IF response[7] = 16 /\ response[8] \in {128, 129, 130}
    THEN SxResult(status, rx, data, TRUE, response, "register")
    ELSE IF response[7] = 17 /\ response[8] = 130
    THEN IF Len(response) < LiveData_decode_needs
         THEN SxResult(status, rx, data, FALSE, response, "panic")
         ELSE SxResult(status, rx, [data EXCEPT !.livedata = LiveData_decode(response)],
                       TRUE, response, "livedata")
    ELSE IF response[7] = 17 /\ response[8] = 131
    THEN IF Len(response) < QueryID_decode_needs
         THEN SxResult(status, rx, data, FALSE, response, "panic")
         ELSE SxResult(status, rx, [data EXCEPT !.id = QueryID_decode(response)],
                       TRUE, response, "id")
    ELSE IF response[7] = 17 /\ response[8] = 132
    THEN IF Len(response) < QueryConfig_decode_needs
         THEN SxResult(status, rx, data, FALSE, response, "panic")
         ELSE SxResult(status, rx, [data EXCEPT !.config = QueryConfig_decode(response)],
                       TRUE, response, "config")
    ELSE SxResult(status, rx, data, FALSE, response, "Bad data?")

\* SolaxX1Air::send_and_recv (solax_x1_air.rs 95-195): the status, receive
\* buffer and data it leaves, and what it returns
solax_send_and_recv(status, rx, data, env) ==
    IF env.hw = "count" THEN SxResult(status, rx, data, FALSE, <<>>, "flush")
    ELSE IF env.hw = "write"
    THEN SxResult("Offline", flush(rx), data, FALSE, <<>>, "write")
    ELSE LET pending == flush(rx) \o env.reply
         IN  IF env.hw = "none"
             THEN SxResult("Offline", pending, data, FALSE, <<>>, "hardware")
             ELSE IF Len(pending) < 5
             THEN SxResult("Offline", pending, data, FALSE, <<>>, "no data")
             ELSE LET ra == read_all(<<>>, pending)
                      response == ra.buf
                  IN  IF response[1] # 170 /\ response[2] # 85
                      THEN SxResult(status, flush(ra.rx), data, FALSE, response,
                                    "preamble")
                      ELSE IF ~check_crc(response)
                      THEN SxResult(status, ra.rx, data, FALSE, response, "crc")
                      ELSE solax_dispatch(status, ra.rx, data, response)

\* the failures in which send_and_recv itself sets the status Offline
HardFailures == {"write", "hardware", "no data"}

MaxSolaxCalls == 2     \* calls of init_inverter and poll_data explored

\* the exchanges that end before the request is on the wire: flush()? fails,
\* or write_all fails (solax_x1_air.rs 96-103)
Unsent == {"flush", "write"}

\* what a call remembers of one exchange: whether it succeeded, and whether
\* send_and_recv itself set the status Offline
SxEntry(req, r) == [req |-> req, ok |-> r.ok, hard |-> r.why \in HardFailures]

\* the exchange is recorded for the call in progress
SxAfter(r, req, tx, next) ==
    [sx EXCEPT !.status = r.status, !.rx = r.rx, !.data = r.data,
               !.hist = Append(@, SxEntry(req, r)),
               !.sent = IF r.why \in Unsent THEN <<>> ELSE tx,
               !.pc = IF r.why = "panic" THEN "panicked" ELSE next,
               !.result = IF r.why = "panic" THEN "panic" ELSE @]

\* a caller enters init_inverter (solax_x1_air.rs 41-43)
SolaxCallInit ==
    /\ sx.pc = "idle"
    /\ sx.calls < MaxSolaxCalls
    /\ sx' = [sx EXCEPT !.pc = "broadcast", !.status_counter = 0, !.calls = @ + 1,
                        !.entry = sx.status, !.mid = sx.status, !.hist = <<>>,
                        !.sent = <<>>, !.result = "running",
                        !.response = <<>>]
    /\ UNCHANGED schedVars

\* variant: the else branch of the discovery exchange is missing
SolaxBroadcast_no_else ==
    /\ sx.pc = "broadcast"
    /\ \E env \in SolaxEnv :
         LET r == solax_send_and_recv(sx.status, sx.rx, sx.data, env)
             a == SxAfter(r, "broadcast", send_broadcast_message,
                          IF r.ok THEN "register" ELSE "config")
         IN  sx' = IF r.why = "panic" THEN a
                   ELSE IF r.ok THEN [a EXCEPT !.response = r.response]
                   ELSE [a EXCEPT !.mid = a.status]
    /\ UNCHANGED schedVars

\* the broadcast discovery exchange and its else branch (solax_x1_air.rs 44, 52-54)
SolaxBroadcast ==
    /\ sx.pc = "broadcast"
    /\ \E env \in SolaxEnv :
         LET r == solax_send_and_recv(sx.status, sx.rx, sx.data, env)
             a == SxAfter(r, "broadcast", send_broadcast_message,
                          IF r.ok THEN "register" ELSE "config")
         IN  sx' = IF r.why = "panic" THEN a
                   ELSE IF r.ok THEN [a EXCEPT !.response = r.response]
                   ELSE [a EXCEPT !.status = "Unregistered", !.mid = "Unregistered"]
    /\ UNCHANGED schedVars

\* variant: Registered whatever the registration exchange returned
SolaxRegister_optimistic ==
    /\ sx.pc = "register"
    /\ IF Len(sx.response) < 23
       THEN sx' = [sx EXCEPT !.pc = "panicked", !.result = "panic"]
       ELSE \E env \in SolaxEnv :
              LET r == solax_send_and_recv(sx.status, sx.rx, sx.data, env)
                  a == SxAfter(r, "register", register_inverter(sx.response, 10),
                               "config")
              IN  sx' = IF r.why = "panic" THEN a
                        ELSE [a EXCEPT !.status = "Registered", !.mid = "Registered",
                                       !.response = <<>>]
    /\ UNCHANGED schedVars

\* the registration exchange (solax_x1_air.rs 45-51); register_inverter
\* panics on a discovery reply shorter than 23 bytes
SolaxRegister ==
    /\ sx.pc = "register"
    /\ IF Len(sx.response) < 23
       THEN sx' = [sx EXCEPT !.pc = "panicked", !.result = "panic"]
       ELSE \E env \in SolaxEnv :
              LET r == solax_send_and_recv(sx.status, sx.rx, sx.data, env)
                  a == SxAfter(r, "register", register_inverter(sx.response, 10),
                               "config")
              IN  sx' = IF r.why = "panic" THEN a
                        ELSE IF r.ok
                        THEN [a EXCEPT !.status = "Registered", !.mid = "Registered",
                                       !.response = <<>>]
                        ELSE [a EXCEPT !.mid = a.status, !.response = <<>>]
    /\ UNCHANGED schedVars

\* variant: every query is counted, accepted or not
SolaxQuery_counts_all(at, tx, next) ==
    /\ sx.pc = at
    /\ \E env \in SolaxEnv :
         LET r == solax_send_and_recv(sx.status, sx.rx, sx.data, env)
             a == SxAfter(r, at, tx, next)
         IN  sx' = IF r.why # "panic"
                   THEN [a EXCEPT !.status_counter = @ + 1]
                   ELSE a
    /\ UNCHANGED schedVars

\* one of the three queries of init_inverter (solax_x1_air.rs 56-69)
SolaxQuery(at, tx, next) ==
    /\ sx.pc = at
    /\ \E env \in SolaxEnv :
         LET r == solax_send_and_recv(sx.status, sx.rx, sx.data, env)
             a == SxAfter(r, at, tx, next)
         IN  sx' = IF r.why # "panic" /\ r.ok
                   THEN [a EXCEPT !.status_counter = @ + 1]
                   ELSE a
    /\ UNCHANGED schedVars

SolaxConfig == SolaxQuery("config", request_config_data, "id")
SolaxId == SolaxQuery("id", request_query_id_data, "live")
SolaxLive == SolaxQuery("live", request_live_data, "count")

\* variant: two of the three queries are enough
SolaxInitReturn_two_of_three ==
    /\ sx.pc = "count"
    /\ sx' = IF sx.status_counter < 2
             THEN [sx EXCEPT !.pc = "idle", !.result = "Err"]
             ELSE [sx EXCEPT !.pc = "idle", !.result = "Ok", !.status = "Online"]
    /\ UNCHANGED schedVars

\* `if status_counter != 3` and the return (solax_x1_air.rs 71-80)
SolaxInitReturn ==
    /\ sx.pc = "count"
    /\ sx' = IF sx.status_counter # 3
             THEN [sx EXCEPT !.pc = "idle", !.result = "Err"]
             ELSE [sx EXCEPT !.pc = "idle", !.result = "Ok", !.status = "Online"]
    /\ UNCHANGED schedVars

\* variant: a failed poll leaves the status as it was
SolaxPollData_keep ==
    /\ sx.pc = "idle"
    /\ sx.calls < MaxSolaxCalls
    /\ \E env \in SolaxEnv :
         LET r == solax_send_and_recv(sx.status, sx.rx, sx.data, env)
             a == [SxAfter(r, "poll_data", request_live_data, "idle") EXCEPT
                      !.calls = @ + 1, !.entry = sx.status, !.mid = sx.status,
                      !.hist = <<SxEntry("poll_data", r)>>,
                      !.status_counter = 0, !.response = <<>>]
         IN  sx' = IF r.why = "panic" THEN a
                   ELSE IF r.ok THEN [a EXCEPT !.status = "Online", !.result = "Ok"]
                   ELSE [a EXCEPT !.result = "Err"]
    /\ UNCHANGED schedVars

\* SolaxX1Air::poll_data (solax_x1_air.rs 81-94)
SolaxPollData ==
    /\ sx.pc = "idle"
    /\ sx.calls < MaxSolaxCalls
    /\ \E env \in SolaxEnv :
         LET r == solax_send_and_recv(sx.status, sx.rx, sx.data, env)
             a == [SxAfter(r, "poll_data", request_live_data, "idle") EXCEPT
                      !.calls = @ + 1, !.entry = sx.status, !.mid = sx.status,
                      !.hist = <<SxEntry("poll_data", r)>>,
                      !.status_counter = 0, !.response = <<>>]
         IN  sx' = IF r.why = "panic" THEN a
                   ELSE IF r.ok THEN [a EXCEPT !.status = "Online", !.result = "Ok"]
                   ELSE [a EXCEPT !.status = "Offline", !.result = "Err"]
    /\ UNCHANGED schedVars

NextSolax ==
    \/ SolaxCallInit
    \/ SolaxBroadcast
    \/ SolaxRegister
    \/ SolaxConfig
    \/ SolaxId
    \/ SolaxLive
    \/ SolaxInitReturn
    \/ SolaxPollData

(***************************************************************************)
(* The Aurora checksum and request frame (aurora.rs 241-264, 557-578).     *)
(***************************************************************************)
\* bitwise exclusive or of two naturals
RECURSIVE Xor(_, _)
Xor(a, b) ==
    IF a = 0 THEN b
    ELSE IF b = 0 THEN a
    ELSE ((a + b) % 2) + 2 * Xor(a \div 2, b \div 2)

\* the inner loop of crc (aurora.rs 567-574): n more bits of the byte `data`
RECURSIVE crc_bits(_, _, _)
crc_bits(reg, data, n) ==
    IF n = 0 THEN reg
    ELSE LET next == IF Xor(reg % 2, data % 2) > 0
                     THEN Xor(reg \div 2, 33800) % 65536  \* poly 0x8408, mask 0xffff
                     ELSE reg \div 2
             shifted == data \div 2                       \* *data >>= 1
         IN  IF next >= 0 /\ shifted >= 0 THEN crc_bits(next, shifted, n - 1) ELSE 0

\* the outer loop of crc (aurora.rs 566-575) from byte k on
RECURSIVE crc_bytes(_, _, _)
crc_bytes(reg, buf, k) ==
    IF k > Len(buf) THEN reg
    ELSE LET next == crc_bits(reg, buf[k], 8)
         IN  IF next >= 0 THEN crc_bytes(next, buf, k + 1) ELSE 0

\* variant: the final register is not inverted
crc_plain(buf) ==
    LET reg == crc_bytes(65535, buf, 1)
    IN  [crc |-> <<reg % 256, reg \div 256>>, buf |-> [k \in 1..Len(buf) |-> 0]]

\* crc (aurora.rs 557-578): the two bytes returned, and the buffer as the
\* function leaves it (every byte was shifted right eight times)
crc(buf) ==
    IF buf = <<>> THEN [crc |-> <<0, 0>>, buf |-> buf]
    ELSE LET reg == 65535 - crc_bytes(65535, buf, 1)      \* !crc & mask
         IN  [crc |-> <<reg % 256, reg \div 256>>,        \* to_le_bytes
              buf |-> [k \in 1..Len(buf) |-> 0]]

\* DspFunction::to_code (aurora.rs 524-541), for the two functions used
DspFunction_to_code(function) ==
    CASE function = "Measure" -> 59
      [] function = "CumulatedEnergy" -> 78

\* DspRequest::as_code (aurora.rs 504-508): the position of the request in
\* the enum (aurora.rs 436-503), for the requests poll_data issues
DspRequest_as_code(r) ==
    CASE r = "Grid" -> 1
      [] r = "Current" -> 2
      [] r = "GridPower" -> 3
      [] r = "Frequency" -> 4
      [] r = "Vbulk" -> 5
      [] r = "IleakDc" -> 6
      [] r = "Ileak" -> 7
      [] r = "Pin1" -> 8
      [] r = "Pin2" -> 9
      [] r = "InverterTemperature" -> 21
      [] r = "BoosterTemperature" -> 22
      [] r = "Input1Voltage" -> 23
      [] r = "Input1Current" -> 25
      [] r = "Input2Voltage" -> 26
      [] r = "Input2Current" -> 27
      [] r = "PowerPeak" -> 34
      [] r = "PowerPeakToday" -> 35

\* EnergyRequest::as_code (aurora.rs 68-79)
EnergyRequest_as_code(r) ==
    CASE r = "Day" -> 0
      [] r = "Week" -> 1
      [] r = "Month" -> 3
      [] r = "Year" -> 4
      [] r = "Total" -> 5
      [] r = "SinceReset" -> 6

\* variant: the checksum is computed on the request itself, not on a clone
request_data_request_in_place(id, function, command, global) ==
    LET request == <<id, DspFunction_to_code(function), command,
                     IF global THEN 1 ELSE 0, 0, 0, 0, 0, 0, 0>>
        r == crc(SubSeq(request, 1, 8))
    IN  [request |-> r.buf \o r.crc, clone |-> r.buf]

\* the request Aurora::request_data builds (aurora.rs 250-264): the ten
\* bytes handed to send_and_recv, and the clone crc worked on
request_data_request(id, function, command, global) ==
    LET request == <<id, DspFunction_to_code(function), command,
                     IF global THEN 1 ELSE 0, 0, 0, 0, 0, 0, 0>>
        r == crc(SubSeq(request, 1, 8))      \* crc(&mut request.clone()[0..8])
    IN  [request |-> SubSeq(request, 1, 8) \o r.crc, clone |-> r.buf]

\* the function and command of exchange s of poll_inverter: init_inverter
\* asks for Measure/Grid (aurora.rs 128-133), poll_data for Measure and its
\* requests (207), request_energy_totals for CumulatedEnergy (228-233)
StepFunction(s) == IF s <= Len(PollRequests) THEN "Measure" ELSE "CumulatedEnergy"

StepCommand(s) ==
    IF s = 0 THEN DspRequest_as_code("Grid")
    ELSE IF s <= Len(PollRequests) THEN DspRequest_as_code(PollRequests[s])
    ELSE EnergyRequest_as_code(EnergyRequests[s - Len(PollRequests)])

\* the requests of a poll, per device address and exchange
RequestFrames ==
    [id \in {InverterIds[i] : i \in 1..NumInverters} |->
        [s \in 0..LastStep |->
            request_data_request(id, StepFunction(s), StepCommand(s), FALSE)]]

(***************************************************************************)
(* The frame builders and checksum functions on their own.                 *)
(***************************************************************************)
Calc(op, buf, out, pos) == [op |-> op, buf |-> buf, out |-> out, pos |-> pos]
CalcIdle == Calc("none", <<>>, <<>>, 0)

\* serial numbers an inverter may announce in its discovery reply
Serials ==
    {SerialNumber, [i \in 1..14 |-> 0], [i \in 1..14 |-> 255],
     [i \in 1..14 |-> 16 * i + 3]}

\* the discovery reply of an inverter with serial number sn
DiscoveryReply(sn) == WithCrc(<<170, 85, 0, 255, 1, 0, 16, 128, 14>> \o sn)

\* every frame the engine builds: the requests of init_inverter and poll_data
\* (solax_x1_air.rs 44-66, 82)
SolaxBuiltFrames ==
    {send_broadcast_message, request_live_data, request_query_id_data,
     request_config_data}
    \cup {register_inverter(DiscoveryReply(sn), 10) : sn \in Serials}

\* the engine builds a frame
CalcSolaxFrame ==
    /\ calc.op = "none"
    /\ \E f \in SolaxBuiltFrames : calc' = Calc("frame", f, <<>>, 0)
    /\ UNCHANGED <<pc, idx, step, pollResult, didIO, didMutate, didPublish, skipped,
                   auroraLock, invertersLock, inverters, reading, transportLost,
                   faults, ticksFired, passCount, lastExchange, pubLog, uptimeCount,
                   pollOrder, passResult, passSnapshot, sx>>

\* one byte before the trailer of a built frame is changed on the wire
CalcCorruptByte ==
    /\ calc.op = "frame"
    /\ \E pos \in 1..(Len(calc.buf) - 2) : \E v \in (0..255) \ {calc.buf[pos]} :
          calc' = Calc("corrupted", [calc.buf EXCEPT ![pos] = v], <<>>, pos)
    /\ UNCHANGED <<pc, idx, step, pollResult, didIO, didMutate, didPublish, skipped,
                   auroraLock, invertersLock, inverters, reading, transportLost,
                   faults, ticksFired, passCount, lastExchange, pubLog, uptimeCount,
                   pollOrder, passResult, passSnapshot, sx>>

\* a live-data response whose import_active field holds the bytes 0xAA 0x55
LiveDataFrameWithPreambleBytes ==
    WithCrc(<<170, 85, 0, 10, 1, 0, 17, 130, 50>>
            \o [i \in 1..50 |-> CASE i = 24 -> 170
                                  [] i = 25 -> 85
                                  [] OTHER -> 0])

\* what one read may find pending: a frame, alone or with a second frame
\* directly behind it
ReadAllInputs ==
    {[first |-> f, rest |-> g] :
        f \in {RegisterRequestFrame, AddressConfirmFrame, LiveDataFrame, QueryIdFrame,
               QueryConfigFrame, LiveDataFrameWithPreambleBytes},
        g \in {<<>>, AddressConfirmFrame, LiveDataFrame}}

\* read_all is applied to the pending bytes; pos is the length of the first
\* frame
CalcReadAll ==
    /\ calc.op = "none"
    /\ \E in \in ReadAllInputs :
          calc' = Calc("read_all", in.first \o in.rest,
                       read_all(<<>>, in.first \o in.rest).buf, Len(in.first))
    /\ UNCHANGED <<pc, idx, step, pollResult, didIO, didMutate, didPublish, skipped,
                   auroraLock, invertersLock, inverters, reading, transportLost,
                   faults, ticksFired, passCount, lastExchange, pubLog, uptimeCount,
                   pollOrder, passResult, passSnapshot, sx>>

\* eight-byte buffers: request headers for a range of addresses, functions
\* and commands, and some arbitrary ones
CrcInputs ==
    {<<id, fn, cmd, g, 0, 0, 0, 0>> :
        id \in {0, 2, 3, 255}, fn \in {59, 78}, cmd \in 0..35, g \in {0, 1}}
    \cup {<<255, 255, 255, 255, 255, 255, 255, 255>>,
          <<1, 2, 4, 8, 16, 32, 64, 128>>,
          <<49, 50, 51, 52, 53, 54, 55, 56>>,
          <<0, 0, 0, 0, 0, 0, 0, 1>>,
          <<128, 0, 0, 0, 0, 0, 0, 0>>}

\* crc is applied to a buffer
CalcAuroraCrc ==
    /\ calc.op = "none"
    /\ \E b \in CrcInputs :
          LET r == crc(b) IN calc' = Calc("crc", b, r.crc \o r.buf, 0)
    /\ UNCHANGED <<pc, idx, step, pollResult, didIO, didMutate, didPublish, skipped,
                   auroraLock, invertersLock, inverters, reading, transportLost,
                   faults, ticksFired, passCount, lastExchange, pubLog, uptimeCount,
                   pollOrder, passResult, passSnapshot, sx>>

\* live-data responses over a range of run-mode fields (bytes 39..40) and
\* error-code fields (bytes 55..58)
LiveDecodeInputs ==
    {WithCrc(<<170, 85, 0, 10, 1, 0, 17, 130, 50>>
             \o [i \in 1..50 |-> CASE i = 31 -> mh
                                   [] i = 32 -> ml
                                   [] i = 47 -> e[1]
                                   [] i = 48 -> e[2]
                                   [] i = 49 -> e[3]
                                   [] i = 50 -> el
                                   [] OTHER -> 0]) :
        mh \in {0, 1, 255}, ml \in (0..7) \cup {255},
        e \in {<<0, 0, 0>>, <<0, 0, 1>>, <<0, 1, 0>>, <<1, 0, 0>>, <<255, 255, 255>>},
        el \in (0..10) \cup {255}}

\* LiveData::decode is applied to a live-data response
CalcLiveDecode ==
    /\ calc.op = "none"
    /\ \E f \in LiveDecodeInputs :
          LET d == LiveData_decode(f)
          IN  calc' = Calc("live_decode", f, <<d.run_mode, d.error_code>>, 0)
    /\ UNCHANGED <<pc, idx, step, pollResult, didIO, didMutate, didPublish, skipped,
                   auroraLock, invertersLock, inverters, reading, transportLost,
                   faults, ticksFired, passCount, lastExchange, pubLog, uptimeCount,
                   pollOrder, passResult, passSnapshot, sx>>

\* what may be pending in the receive buffer when an exchange starts:
\* nothing, a few stray bytes, what read_all left of a reply of two chained
\* frames, what it left of a reply of three chained frames, and a whole
\* late reply followed by another
FlushInputs ==
    {<<>>, <<170, 85, 1>>,
     SubSeq(LiveDataFrame, 3, Len(LiveDataFrame)),
     SubSeq(QueryIdFrame, 3, Len(QueryIdFrame))}
    \cup {SubSeq(f, 3, Len(f)) \o g :
             f \in {LiveDataFrame, QueryIdFrame, AddressConfirmFrame},
             g \in {AddressConfirmFrame, LiveDataFrame, QueryConfigFrame}}
    \cup {f \o g : f \in {AddressConfirmFrame, QueryIdFrame},
                    g \in {LiveDataFrame, QueryConfigFrame}}

\* the start of send_and_recv (solax_x1_air.rs 96-123) on a port with bytes
\* pending: flush, the write, the reply arrives, read_all; pos is the number
\* of bytes flush left, out the response read
CalcFlush ==
    /\ calc.op = "none"
    /\ \E pending \in FlushInputs :
       \E reply \in {LiveDataFrame, QueryConfigFrame, AddressConfirmFrame} :
          LET left == flush(pending)
          IN  calc' = Calc("flush", pending \o reply,
                           read_all(<<>>, left \o reply).buf, Len(left))
    /\ UNCHANGED <<pc, idx, step, pollResult, didIO, didMutate, didPublish, skipped,
                   auroraLock, invertersLock, inverters, reading, transportLost,
                   faults, ticksFired, passCount, lastExchange, pubLog, uptimeCount,
                   pollOrder, passResult, passSnapshot, sx>>

\* byte sequences calc_partial_crc is given: the frames the engine builds,
\* received frames without their trailer, and long received buffers whose
\* byte sum is just below, at and above 65536
PartialCrcInputs ==
    SolaxBuiltFrames
    \cup {SubSeq(f, 1, Len(f) - 2) :
             f \in {RegisterRequestFrame, AddressConfirmFrame, LiveDataFrame,
                    QueryIdFrame, QueryConfigFrame, BadCrcFrame}}
    \cup {[i \in 1..n |-> 255] : n \in {1, 256, 257, 258, 300}}
    \cup {[i \in 1..257 |-> 255] \o <<b>> : b \in {0, 1, 2}}
    \cup {<<170, 85, 0, 10, 1, 0, 17, 130, 50>> \o [i \in 1..n |-> 200] :
             n \in {50, 325, 326, 400}}

\* calc_partial_crc is applied to a byte sequence, by a build with or
\* without overflow checks; pos is 1 when it panicked
CalcPartialCrc ==
    /\ calc.op = "none"
    /\ \E payload \in PartialCrcInputs, overflow_checks \in BOOLEAN :
          LET r == calc_partial_crc_build(payload, overflow_checks)
          IN  calc' = Calc("partial_crc", payload, r.crc, IF r.panic THEN 1 ELSE 0)
    /\ UNCHANGED <<pc, idx, step, pollResult, didIO, didMutate, didPublish, skipped,
                   auroraLock, invertersLock, inverters, reading, transportLost,
                   faults, ticksFired, passCount, lastExchange, pubLog, uptimeCount,
                   pollOrder, passResult, passSnapshot, sx>>

NextCalc ==
    \/ CalcSolaxFrame
    \/ CalcCorruptByte
    \/ CalcAuroraCrc
    \/ CalcReadAll
    \/ CalcLiveDecode
    \/ CalcFlush
    \/ CalcPartialCrc

(***************************************************************************)
(* The scheduler (events.rs 12-79). Each timer callback context runs       *)
(* inverter_poll_task; one action per lock attempt, per bus exchange, per  *)
(* device publish and per lock release.                                    *)
(***************************************************************************)
ZeroReading == [measure |-> <<0, 0, 0, 0>>, energy |-> <<0, 0, 0, 0>>]
NoExchange == [by |-> 0, id |-> 0, step |-> 0, kind |-> "none", ops |-> <<>>,
               state |-> 0, frame |-> <<>>, clone |-> <<>>]
Pending == [state |-> "pending", at |-> 0]

Init ==
    /\ pc = [t \in Contexts |-> "idle"]
    /\ idx = [t \in Contexts |-> 0]
    /\ step = [t \in Contexts |-> 0]
    /\ pollResult = [t \in Contexts |-> "none"]
    /\ didIO = [t \in Contexts |-> FALSE]
    /\ didMutate = [t \in Contexts |-> FALSE]
    /\ didPublish = [t \in Contexts |-> FALSE]
    /\ skipped = [t \in Contexts |-> "none"]
    /\ auroraLock = 0
    /\ invertersLock = 0
    /\ inverters = [i \in 1..NumInverters |-> AuroraInverter_new(InverterIds[i])]
    /\ reading = ZeroReading
    /\ transportLost = FALSE
    /\ faults = 0
    /\ ticksFired = 0
    /\ passCount = 0
    /\ lastExchange = NoExchange
    /\ pubLog = [i \in 1..NumInverters |-> {}]
    /\ uptimeCount = 0
    /\ pollOrder = <<>>
    /\ passResult = [i \in 1..NumInverters |-> Pending]
    /\ passSnapshot = [i \in 1..NumInverters |-> AuroraInverter_new(InverterIds[i])]
    /\ sx = SolaxInit
    /\ calc = CalcIdle

\* the periodic timer expires and a callback starts (events.rs 67-76)
TimerFire(t) ==
    /\ pc[t] = "idle"
    /\ \A u \in Contexts : pc[u] = "idle" => t <= u
    /\ ticksFired < MaxTicks
    /\ ticksFired' = ticksFired + 1
    /\ pc' = [pc EXCEPT ![t] = "lockAurora"]
    /\ didIO' = [didIO EXCEPT ![t] = FALSE]
    /\ didMutate' = [didMutate EXCEPT ![t] = FALSE]
    /\ didPublish' = [didPublish EXCEPT ![t] = FALSE]
    /\ skipped' = [skipped EXCEPT ![t] = "running"]
    /\ UNCHANGED <<idx, step, pollResult, auroraLock, invertersLock, inverters,
                   reading, transportLost, faults, lastExchange, pubLog,
                   uptimeCount, pollOrder, passResult, passSnapshot, passCount, sx, calc>>

\* a lock that is handed out whoever holds it
try_lock_always(holder) == TRUE

\* Mutex::try_lock: Ok exactly when nobody holds the mutex
try_lock(holder) == holder = 0

\* Mutex::lock in place of try_lock: the callback waits for the mutex
TryLockAurora_blocking(t) ==
    /\ pc[t] = "lockAurora"
    /\ auroraLock = 0
    /\ auroraLock' = t
    /\ pc' = [pc EXCEPT ![t] = "lockInverters"]
    /\ UNCHANGED <<idx, step, pollResult, didIO, didMutate, didPublish, skipped,
                   invertersLock, inverters, reading, transportLost, faults,
                   ticksFired, lastExchange, pubLog, uptimeCount, pollOrder,
                   passResult, passSnapshot, passCount, sx, calc>>

\* `if let Ok(mut aurora) = aurora_arc_mutex.try_lock()` and its else branch
\* (events.rs 18, 53-55)
TryLockAurora(t) ==
    /\ pc[t] = "lockAurora"
    /\ IF try_lock(auroraLock)
       THEN /\ auroraLock' = t
            /\ pc' = [pc EXCEPT ![t] = "lockInverters"]
            /\ UNCHANGED skipped
       ELSE /\ pc' = [pc EXCEPT ![t] = "idle"]
            /\ skipped' = [skipped EXCEPT ![t] = "Aurora lock failed"]
            /\ UNCHANGED auroraLock
    /\ UNCHANGED <<idx, step, pollResult, didIO, didMutate, didPublish,
                   invertersLock, inverters, reading, transportLost, faults,
                   ticksFired, lastExchange, pubLog, uptimeCount, pollOrder,
                   passResult, passSnapshot, passCount, sx, calc>>

\* `if let Ok(mut inverters) = inverters_arc_mutex.try_lock()` and its else
\* branch (events.rs 19-20, 50-52); on success the pass begins
TryLockInverters(t) ==
    /\ pc[t] = "lockInverters"
    /\ IF try_lock(invertersLock)
       THEN /\ invertersLock' = t
            /\ pc' = [pc EXCEPT ![t] = "poll"]
            /\ idx' = [idx EXCEPT ![t] = 1]
            /\ step' = [step EXCEPT ![t] = 0]
            /\ reading' \in ReadingsAt(passCount + 1)
            /\ pubLog' = [i \in 1..NumInverters |-> {}]
            /\ uptimeCount' = 0
            /\ pollOrder' = <<>>
            /\ passResult' = [i \in 1..NumInverters |-> Pending]
            /\ passSnapshot' = inverters
            /\ passCount' = passCount + 1
            /\ UNCHANGED skipped
       ELSE /\ pc' = [pc EXCEPT ![t] = "unlockAurora"]
            /\ skipped' = [skipped EXCEPT ![t] = "Inverter lock failed"]
            /\ UNCHANGED <<invertersLock, idx, step, reading, pubLog, uptimeCount,
                           pollOrder, passResult, passSnapshot, passCount>>
    /\ UNCHANGED <<pollResult, didIO, didMutate, didPublish, auroraLock,
                   inverters, transportLost, faults, ticksFired, lastExchange, sx, calc>>

\* how the next exchange may end, with at most `budget` transient failures
Outcomes(s, budget) ==
    IF transportLost
    THEN {Outcome("write", NoResponse), Outcome("timeout", NoResponse)}
    ELSE {Outcome("reply", Response(0, ReplyPayload(s, reading)))}
         \cup (IF faults < budget
               THEN {Outcome("flush", NoResponse), Outcome("write", NoResponse),
                     Outcome("timeout", NoResponse)}
                    \cup {Outcome("reply", Response(c, ReplyPayload(s, reading)))
                            : c \in BadStateBytes}
               ELSE {})

IsFault(o) == ~(o.kind = "reply" /\ o.response[1] = 0)

\* `aurora.poll_inverter(inverter)` (events.rs 22), one exchange per step
Exchange(t, budget) ==
    /\ pc[t] = "poll"
    /\ \E o \in Outcomes(step[t], budget) :
         LET i == idx[t]
             s == step[t]
             r == poll_inverter_step(inverters[i], s, o, passCount)
             finished == r.ok /\ s = LastStep
             \* poll_inverter stamps lastmessage once more (aurora.rs 153)
             inv == IF finished THEN [r.inverter EXCEPT !.lastmessage = passCount]
                    ELSE r.inverter
         IN  /\ inverters' = [inverters EXCEPT ![i] = inv]
             /\ lastExchange' = [by |-> t, id |-> inverters[i].id, step |-> s,
                                 kind |-> o.kind, ops |-> send_and_recv(o).ops,
                                 state |-> o.response[1],
                                 \* the request reaches write_all unless the
                                 \* first flush fails (aurora.rs 290-292)
                                 frame |-> IF o.kind = "flush" THEN <<>>
                                           ELSE RequestFrames[inverters[i].id][s].request,
                                 clone |-> RequestFrames[inverters[i].id][s].clone]
             /\ faults' = IF IsFault(o) /\ ~transportLost THEN faults + 1 ELSE faults
             /\ didIO' = [didIO EXCEPT ![t] = TRUE]
             /\ didMutate' = [didMutate EXCEPT
                                 ![t] = @ \/ r.ok \/ r.err = "No response from inverter"]
             /\ pollOrder' = IF s = 0 THEN Append(pollOrder, inverters[i].id)
                             ELSE pollOrder
             /\ IF r.ok /\ ~finished
                THEN /\ step' = [step EXCEPT ![t] = s + 1]
                     /\ UNCHANGED <<pc, pollResult, passResult>>
                ELSE /\ pc' = [pc EXCEPT ![t] = "publish"]
                     /\ pollResult' = [pollResult EXCEPT
                                          ![t] = IF r.ok THEN "Ok" ELSE "Err"]
                     /\ passResult' = [passResult EXCEPT
                                          ![i] = [state |-> IF r.ok THEN "ok" ELSE "err",
                                                  at |-> s]]
                     /\ UNCHANGED step
    /\ UNCHANGED <<idx, didPublish, skipped, auroraLock, invertersLock, reading,
                   transportLost, ticksFired, pubLog, uptimeCount, passSnapshot, passCount, sx, calc>>

\* "send zeroed data if error": the device's defaults instead of what it holds
json_data_zeroed(inverter) ==
    data_to_vec_mqtt_json(
        [AuroraInverter_new(inverter.id) EXCEPT !.availability = inverter.availability],
        MQTT_TOPIC_NAME)

\* what the pass hands to mqtt_publish for a device after its poll
\* (events.rs 26-37)
json_data(inverter) == data_to_vec_mqtt_json(inverter, MQTT_TOPIC_NAME)

\* a pass that gives up at the first device whose poll failed
Publish_abort(t) ==
    /\ pc[t] = "publish"
    /\ lastExchange' = NoExchange
    /\ IF pollResult[t] = "Err"
       THEN /\ pc' = [pc EXCEPT ![t] = "unlockInverters"]
            /\ UNCHANGED <<idx, step, pubLog, uptimeCount, didPublish>>
       ELSE /\ pubLog' = [pubLog EXCEPT ![idx[t]] = json_data(inverters[idx[t]])]
            /\ uptimeCount' = uptimeCount + 1
            /\ didPublish' = [didPublish EXCEPT ![t] = TRUE]
            /\ IF idx[t] < NumInverters
               THEN /\ idx' = [idx EXCEPT ![t] = @ + 1]
                    /\ step' = [step EXCEPT ![t] = 0]
                    /\ pc' = [pc EXCEPT ![t] = "poll"]
               ELSE /\ pc' = [pc EXCEPT ![t] = "unlockInverters"]
                    /\ UNCHANGED <<idx, step>>
    /\ UNCHANGED <<pollResult, didIO, didMutate, skipped, auroraLock,
                   invertersLock, inverters, reading, transportLost, faults,
                   ticksFired, pollOrder, passResult, passSnapshot, passCount, sx, calc>>

\* flatten and publish the device, publish the uptime, go to the next device
\* (events.rs 21-49)
Publish(t) ==
    /\ pc[t] = "publish"
    /\ pubLog' = [pubLog EXCEPT ![idx[t]] = json_data(inverters[idx[t]])]
    /\ uptimeCount' = uptimeCount + 1
    /\ didPublish' = [didPublish EXCEPT ![t] = TRUE]
    /\ IF idx[t] < NumInverters
       THEN /\ idx' = [idx EXCEPT ![t] = @ + 1]
            /\ step' = [step EXCEPT ![t] = 0]
            /\ pc' = [pc EXCEPT ![t] = "poll"]
       ELSE /\ pc' = [pc EXCEPT ![t] = "unlockInverters"]
            /\ UNCHANGED <<idx, step>>
    /\ lastExchange' = NoExchange
    /\ UNCHANGED <<pollResult, didIO, didMutate, skipped, auroraLock,
                   invertersLock, inverters, reading, transportLost, faults,
                   ticksFired, pollOrder, passResult, passSnapshot, passCount, sx, calc>>

\* the inverters guard is dropped at the end of the inner block (events.rs 50)
UnlockInverters(t) ==
    /\ pc[t] = "unlockInverters"
    /\ invertersLock' = IF invertersLock = t THEN 0 ELSE invertersLock
    /\ pc' = [pc EXCEPT ![t] = "unlockAurora"]
    /\ UNCHANGED <<idx, step, pollResult, didIO, didMutate, didPublish, skipped,
                   auroraLock, inverters, reading, transportLost, faults,
                   ticksFired, lastExchange, pubLog, uptimeCount, pollOrder,
                   passResult, passSnapshot, passCount, sx, calc>>

\* variant: the callback returns with the aurora guard still held
UnlockAurora_leak(t) ==
    /\ pc[t] = "unlockAurora"
    /\ pc' = [pc EXCEPT ![t] = "idle"]
    /\ skipped' = [skipped EXCEPT ![t] = IF @ = "running" THEN "polled" ELSE @]
    /\ UNCHANGED <<idx, step, pollResult, didIO, didMutate, didPublish, auroraLock,
                   invertersLock, inverters, reading, transportLost, faults,
                   ticksFired, lastExchange, pubLog, uptimeCount, pollOrder,
                   passResult, passSnapshot, passCount, sx, calc>>

\* the aurora guard is dropped at the end of the outer block and the
\* callback returns (events.rs 53-56)
UnlockAurora(t) ==
    /\ pc[t] = "unlockAurora"
    /\ auroraLock' = IF auroraLock = t THEN 0 ELSE auroraLock
    /\ pc' = [pc EXCEPT ![t] = "idle"]
    /\ skipped' = [skipped EXCEPT ![t] = IF @ = "running" THEN "polled" ELSE @]
    /\ UNCHANGED <<idx, step, pollResult, didIO, didMutate, didPublish,
                   invertersLock, inverters, reading, transportLost, faults,
                   ticksFired, lastExchange, pubLog, uptimeCount, pollOrder,
                   passResult, passSnapshot, passCount, sx, calc>>

\* the transport is lost between two passes: from now on no exchange succeeds
TransportLoss ==
    /\ ~transportLost
    /\ auroraLock = 0
    /\ transportLost' = TRUE
    /\ UNCHANGED <<pc, idx, step, pollResult, didIO, didMutate, didPublish, skipped,
                   auroraLock, invertersLock, inverters, reading, faults,
                   ticksFired, lastExchange, pubLog, uptimeCount, pollOrder,
                   passResult, passSnapshot, passCount, sx, calc>>

\* timer callbacks may overlap: every interleaving of NumContexts callbacks
Next ==
    \/ \E t \in Contexts : TimerFire(t)
    \/ \E t \in Contexts : TryLockAurora(t)
    \/ \E t \in Contexts : TryLockInverters(t)
    \/ \E t \in Contexts : Exchange(t, MaxOverlapFaults)
    \/ \E t \in Contexts : Publish(t)
    \/ \E t \in Contexts : UnlockInverters(t)
    \/ \E t \in Contexts : UnlockAurora(t)
    \/ TransportLoss

Spec == Init /\ [][Next]_vars

\* the timer service runs its callbacks one after the other (one context),
\* and single exchanges may fail
NextPass ==
    \/ TimerFire(1)
    \/ TryLockAurora(1)
    \/ TryLockInverters(1)
    \/ Exchange(1, MaxFaults)
    \/ Publish(1)
    \/ UnlockInverters(1)
    \/ UnlockAurora(1)
    \/ TransportLoss

SpecPass == Init /\ [][NextPass]_vars

SpecSolax == Init /\ [][NextSolax]_vars

SpecCalc == Init /\ [][NextCalc]_vars

(***************************************************************************)
(* Properties of the scheduler and of the Aurora engine.                   *)
(***************************************************************************)
InPass == {"poll", "publish", "unlockInverters"}
Status(i) == inverters[i].availability.status
TransportKinds == {"flush", "write", "timeout"}

\* the exchange poll_inverter is handling failed as a request: the flush,
\* the write or the read failed, or the reply's state byte is not OK
RequestFailed ==
    \/ lastExchange.kind \in TransportKinds
    \/ (lastExchange.kind = "reply" /\ parse(lastExchange.state) # "OK")

\* the exchange (1: the first of poll_data) that writes each Dsp field
DspFieldStep ==
    [k \in DspFields |->
        CHOOSE s \in 1..Len(PollRequests) :
            Dsp_update_value(Dsp_default, PollRequests[s],
                             Response(0, <<63, 128, 0, 0>>))[k] # FloatZero]

StepOfDspField(k) == DspFieldStep[k]

\* the exchange that writes each energy total
EnergyFieldStep ==
    [k \in EnergyFields |->
        CHOOSE s \in 1..Len(EnergyRequests) :
            EnergyTotals_update_value(EnergyTotals_default, EnergyRequests[s],
                                      Response(0, <<0, 0, 0, 1>>))[k] # FloatZero]

StepOfEnergyField(k) == EnergyFieldStep[k]

PayloadOf(msgs, topic) == {m.payload : m \in {x \in msgs : x.topic = topic}}

\* C1: a callback whose try_lock of the engine mutex or of the device mutex
\* fails does no bus I/O, writes to no device and publishes nothing (not even
\* the uptime), and it never waits: at either lock attempt it can always take
\* its step, whoever holds the mutex.
C1_SkippedTickDoesNothing ==
    \A t \in Contexts :
        /\ skipped[t] \in {"Aurora lock failed", "Inverter lock failed"}
              => ~didIO[t] /\ ~didMutate[t] /\ ~didPublish[t]
                 /\ pc[t] \in {"idle", "unlockAurora"} /\ invertersLock # t
        /\ pc[t] = "lockAurora" => ENABLED TryLockAurora(t)
        /\ pc[t] = "lockInverters" => ENABLED TryLockInverters(t)

C1_Witness ==
    \E t, u \in Contexts :
        /\ skipped[t] = "Aurora lock failed" /\ pc[t] = "idle"
        /\ pc[u] = "poll" /\ step[u] > 0 /\ didIO[u] /\ auroraLock = u

\* C2: at most one callback at a time is inside a poll pass, whatever the
\* interleaving, and a callback that attempts the engine lock while another
\* one is in its pass returns at once without running a pass.
C2_MutualExclusion == Cardinality({t \in Contexts : pc[t] \in InPass}) <= 1

C2_SkipNotQueue ==
    \A t \in Contexts :
        (/\ pc[t] = "lockAurora"
         /\ pc'[t] # pc[t]
         /\ \E u \in Contexts \ {t} : pc[u] \in InPass)
        => /\ pc'[t] = "idle"
           /\ skipped'[t] = "Aurora lock failed"
           /\ inverters' = inverters /\ pubLog' = pubLog

C2_OneTickInPass == [](C2_MutualExclusion) /\ [][C2_SkipNotQueue]_vars

C2_Witness ==
    \E t, u \in Contexts :
        /\ skipped[t] = "Aurora lock failed" /\ pc[t] = "idle"
        /\ pc[u] = "publish" /\ idx[u] = NumInverters

\* C3: in one pass the devices are polled in the order of the collection,
\* and when the pass ends every device has been polled and has had its pairs
\* published, whichever of the earlier devices failed its poll.
C3_FailureDoesNotAbortPass ==
    /\ \E n \in 0..NumInverters : pollOrder = SubSeq(InverterIds, 1, n)
    /\ \A t \in Contexts :
          pc[t] = "unlockInverters" =>
              /\ pollOrder = InverterIds
              /\ \A i \in 1..NumInverters :
                    /\ passResult[i].state \in {"ok", "err"}
                    /\ pubLog[i] # {}
                    /\ \A m \in pubLog[i] : m.topic[2] = InverterIds[i]

C3_Witness ==
    /\ pc[1] = "unlockInverters"
    /\ passResult[1].state = "err"
    /\ passResult[2].state = "ok"
    /\ pubLog[2] # {}

\* the publish step of device i has just been taken
JustPublished(i) ==
    \E t \in Contexts :
        \/ pc[t] = "poll" /\ idx[t] = i + 1 /\ step[t] = 0
        \/ pc[t] = "unlockInverters" /\ i = NumInverters

C5_Step ==
    \A i \in 1..NumInverters :
        LET initReply == /\ lastExchange' # lastExchange
                         /\ lastExchange'.id = InverterIds[i]
                         /\ lastExchange'.step = 0
                         /\ lastExchange'.kind = "reply"
                         /\ parse(lastExchange'.state) = "OK"
            volts == f32_from_be_bytes(reading.measure)
        IN  /\ (Status(i) # "Online" /\ inverters'[i].availability.status = "Online")
                  => initReply /\ volts.cls # "nan" /\ volts.sign = 1
            /\ (initReply /\ ~(volts.cls # "nan" /\ volts.sign = 1))
                  => /\ inverters'[i].availability.status = "Offline"
                     /\ passResult'[i].state = "err"

C5_OnlineOnlyByInit == [][C5_Step]_vars

C5_Witness ==
    \E i \in 1..NumInverters :
        /\ lastExchange.id = InverterIds[i] /\ lastExchange.step = 0
        /\ lastExchange.kind = "reply"
        /\ Status(i) = "Online"
        /\ passSnapshot[i].availability.status = "Offline"

\* C6: when poll_inverter returns because a request failed (flush, write or
\* read error, or a reply whose state byte is not OK), the device is Offline.
C6_RequestFailureSetsOffline ==
    \A t \in Contexts :
        (pc[t] = "publish" /\ pollResult[t] = "Err" /\ RequestFailed)
            => Status(idx[t]) = "Offline"

\* C7: once the transport is lost, a pass that ran entirely under the loss
\* leaves every device Offline.
C7_TransportLossGoesOffline ==
    (transportLost /\ \E t \in Contexts : pc[t] = "unlockInverters")
        => \A i \in 1..NumInverters : Status(i) = "Offline"

\* ---- the Solax engine ----

\* the call in progress, or the one that returned last, is init_inverter
InInit == Len(sx.hist) >= 1 /\ sx.hist[1].req = "broadcast"

\* init_inverter has returned and no call was made since
InitReturned == InInit /\ sx.pc = "idle" /\ sx.result \in {"Ok", "Err"}

\* the entries of the three queries of the call
QueryEntries == {sx.hist[k] : k \in {j \in 1..Len(sx.hist) :
                                        sx.hist[j].req \in {"config", "id", "live"}}}

AllQueriesOk == Cardinality({e \in QueryEntries : e.ok}) = 3

\* the call started from Offline and its discovery exchange failed
FailedBroadcastFromOffline ==
    /\ InInit
    /\ sx.entry = "Offline"
    /\ ~sx.hist[1].ok
    /\ sx.pc # "panicked"

C9_RegistrationSetsStatus ==
    (InInit /\ Len(sx.hist) = 2 /\ sx.hist[2].req = "register" /\ sx.pc = "config")
        => sx.status = IF sx.hist[2].ok THEN "Registered" ELSE "Unregistered"

\* C10: when init_inverter returns, it returns Ok exactly when the
\* configuration, identity and live-data exchanges of the call all
\* succeeded, it has then set the status Online, and it returns Err otherwise.
C10_OnlineIffThreeOfThree ==
    InitReturned =>
        /\ (sx.result = "Ok" /\ sx.status = "Online") <=> AllQueriesOk
        /\ sx.result = "Ok" <=> AllQueriesOk
        /\ Cardinality({k \in 1..Len(sx.hist) :
                           sx.hist[k].req \in {"config", "id", "live"}}) = 3

C10_Witness ==
    /\ InitReturned
    /\ sx.entry # "Online"
    /\ AllQueriesOk
    /\ sx.result = "Ok"
    /\ sx.status = "Online"

\* C11: when init_inverter returns with fewer than three successful queries,
\* it returns an error, the status is not Online, and the status is the one
\* it had right after the broadcast/registration step.
C11_FailedInitKeepsStatus ==
    (InitReturned /\ ~AllQueriesOk) =>
        /\ sx.result = "Err"
        /\ sx.status # "Online"
        /\ sx.status = sx.mid

\* poll_data has returned and no call was made since
PollReturned ==
    /\ Len(sx.hist) = 1 /\ sx.hist[1].req = "poll_data"
    /\ sx.pc = "idle" /\ sx.result \in {"Ok", "Err"}

C12_Step ==
    /\ (sx'.status = "Registered" /\ sx.status # "Registered") =>
          /\ sx.pc = "register"
          /\ Len(sx.hist) = 1 /\ sx.hist[1].req = "broadcast" /\ sx.hist[1].ok
          /\ sx'.hist[2].req = "register" /\ sx'.hist[2].ok
    /\ (sx'.status = "Online" /\ sx.status # "Online") =>
          \/ /\ sx.pc = "count"
             /\ AllQueriesOk
             /\ sx'.result = "Ok"
          \/ /\ sx.pc = "idle"
             /\ sx'.hist = <<[req |-> "poll_data", ok |-> TRUE, hard |-> FALSE]>>
             /\ sx'.sent = request_live_data

\* C12: the status turns Registered only in the registration exchange of
\* init_inverter, when the broadcast reply and then the registration reply
\* were both accepted; it turns Online only when init_inverter returns after
\* three accepted query replies or when poll_data's exchange was accepted,
\* whatever the status was before (Offline and Unregistered included).
C12_ConfirmedTransitions == [][C12_Step]_vars

C12_Witness ==
    /\ PollReturned
    /\ sx.entry = "Offline"
    /\ sx.result = "Ok"
    /\ sx.status = "Online"

\* C12 as stated: a call that turned the status Online found it Registered
\* (or already Online) before the step that set it.
C12_OnlineOnlyFromRegistered ==
    (sx.pc = "idle" /\ sx.result = "Ok" /\ sx.status = "Online")
        => sx.mid \in {"Registered", "Online"}

\* C13: poll_data makes one exchange, whose request is the live-data query
\* and nothing else (nothing at all reaches the wire when the flush or the
\* write fails); an accepted reply leaves the status Online and returns Ok,
\* and any failure leaves it Offline and returns an error.
C13_PollDataOneQuery ==
    (~InInit /\ sx.hist # <<>> /\ sx.pc = "idle") =>
        /\ PollReturned
        /\ sx.sent \in {request_live_data, <<>>}
        /\ sx.hist[1].ok =>
              sx.status = "Online" /\ sx.result = "Ok" /\ sx.sent = request_live_data
        /\ ~sx.hist[1].ok => sx.status = "Offline" /\ sx.result = "Err"

C13_Witness ==
    /\ PollReturned
    /\ sx.entry = "Online"
    /\ ~sx.hist[1].ok /\ ~sx.hist[1].hard
    /\ sx.sent = request_live_data
    /\ sx.status = "Offline"

\* C14: a response that send_and_recv returns as accepted begins with 0xAA,
\* 0x55 and ends with the 16-bit sum of the bytes before its last two, high
\* byte first. (Stated for the accepted broadcast reply, the response that
\* init_inverter keeps.)
C14_AcceptedFrameWellFormed ==
    (sx.pc = "register" /\ Len(sx.hist) = 1 /\ sx.hist[1].ok) =>
        /\ sx.response[1] = 170
        /\ sx.response[2] = 85
        /\ check_crc(sx.response)

\* C15: every frame the engine builds passes check_crc, and a built frame in
\* which one byte before the two-byte trailer was changed to another value
\* is rejected by check_crc.
C15_BuiltFramesCheck ==
    /\ calc.op = "frame" => check_crc(calc.buf)
    /\ calc.op = "corrupted" => ~check_crc(calc.buf)

C15_Witness ==
    /\ calc.op = "corrupted"
    /\ Len(calc.buf) = 26
    /\ calc.pos = 24
    /\ calc.buf[24] = 0

\* the seven bytes after the state byte, for the check of every state byte
ResponseTails ==
    {<<0, 0, 0, 0, 0, 0, 0>>, <<255, 255, 255, 255, 255, 255, 255>>,
     <<6, 67, 102, 0, 0, 190, 17>>, <<2, 127, 192, 0, 0, 1, 2>>}

\* request_data on every state byte: accepted exactly when it is 0, rejected
\* with the transmission state parse gives, which is one of eight distinct
\* named states for 51..58 and Unknown for every other non-zero byte
StateByteTable ==
    /\ \A b \in 0..255 : \A t \in ResponseTails :
          LET r == request_data(Outcome("reply", <<b>> \o t))
          IN  /\ r.ok <=> b = 0
              /\ b = 0 => r.response = <<b>> \o t
              /\ b # 0 => r.err = parse(b)
              /\ (b \in 51..58) <=> parse(b) \notin {"OK", "Unknown"}
              /\ (b # 0 /\ b \notin 51..58) => parse(b) = "Unknown"
    /\ Cardinality({parse(b) : b \in 51..58}) = 8

C16_Step ==
    /\ StateByteTable
    /\ \A i \in 1..NumInverters :
          LET newReply == /\ lastExchange' # lastExchange
                          /\ lastExchange'.id = InverterIds[i]
                          /\ lastExchange'.kind = "reply"
          IN  /\ (newReply /\ lastExchange'.state # 0) =>
                    /\ inverters'[i].data = inverters[i].data
                    /\ inverters'[i].energy = inverters[i].energy
                    /\ passResult'[i] = [state |-> "err", at |-> lastExchange'.step]
              /\ (newReply /\ lastExchange'.state = 0 /\ lastExchange'.step >= 1) =>
                    passResult'[i].state # "err"

\* C16: request_data accepts a response exactly when its state byte is 0,
\* whatever the other seven bytes; a non-zero state byte is rejected with its
\* transmission state (eight distinct named ones, Unknown otherwise); and the
\* exchange of a pass that gets a rejected response changes no measurement
\* and no energy field of the device and ends its poll with an error.
C16_StateByteDecides == [][C16_Step]_vars

C16_Witness ==
    \E i \in 1..NumInverters :
        /\ lastExchange.id = InverterIds[i]
        /\ lastExchange.kind = "reply" /\ lastExchange.state = 58
        /\ lastExchange.step = 2
        /\ passResult[i] = [state |-> "err", at |-> 2]
        /\ inverters[i].data # passSnapshot[i].data

\* the reflected CRC-16 with polynomial 0x8408, written the usual way: the
\* byte is folded into the low half of the register, then eight shifts
RECURSIVE RefShift(_, _)
RefShift(reg, n) ==
    IF n = 0 THEN reg
    ELSE LET next == IF reg % 2 = 1 THEN Xor(reg \div 2, 33800) ELSE reg \div 2
         IN  IF next >= 0 THEN RefShift(next, n - 1) ELSE 0

RECURSIVE RefRegister(_, _, _)
RefRegister(reg, buf, k) ==
    IF k > Len(buf) THEN reg
    ELSE LET next == RefShift(Xor(reg, buf[k]), 8)
         IN  IF next >= 0 THEN RefRegister(next, buf, k + 1) ELSE 0

RefCrc(buf) ==
    LET reg == Xor(RefRegister(65535, buf, 1), 65535) % 65536
    IN  <<reg % 256, reg \div 256>>

\* C17: for an 8-byte input, crc returns the bit-serial CRC-16 with
\* polynomial 0x8408 and initial register 0xFFFF, bytes consumed least
\* significant bit first, the final register inverted and masked to 16 bits,
\* as (low byte, high byte). The reference gives the published check value
\* 0x906E of this CRC for "123456789".
RefCrcCheckValue == RefCrc(<<49, 50, 51, 52, 53, 54, 55, 56, 57>>)

C17_CrcIsReflectedCrc16 ==
    /\ RefCrcCheckValue = <<110, 144>>
    /\ calc.op = "crc" =>
          /\ Len(calc.buf) = 8
          /\ SubSeq(calc.out, 1, 2) = RefCrc(calc.buf)

C17_Witness ==
    /\ calc.op = "crc"
    /\ calc.buf = <<2, 59, 1, 0, 0, 0, 0, 0>>
    /\ SubSeq(calc.out, 1, 2) = RefCrc(calc.buf)
    /\ SubSeq(calc.out, 1, 2) # <<0, 0>>

\* the command codes of the 24 exchanges of a poll, in the order of
\* init_inverter, poll_data and request_energy_totals
C18_Commands ==
    <<1, 1, 2, 3, 4, 5, 7, 6, 8, 9, 21, 22, 25, 23, 27, 26, 34, 35,
      0, 1, 3, 4, 5, 6>>

\* request headers over a range of addresses, both functions, every command
\* code up to PowerPeakToday and both global flags
C18_Headers ==
    {<<id, fn, c, g, 0, 0, 0, 0>> :
        id \in {0, 2, 3, 255}, fn \in {"Measure", "CumulatedEnergy"},
        c \in 0..35, g \in BOOLEAN}

\* request_data builds, for each header, the header unchanged followed by
\* the checksum of the header, and the clone crc worked on ends all zero
C18_BuiltRequests ==
    \A h \in C18_Headers :
        LET b == request_data_request(h[1], h[2], h[3], h[4])
            head == <<h[1], DspFunction_to_code(h[2]), h[3],
                      IF h[4] THEN 1 ELSE 0, 0, 0, 0, 0>>
        IN  /\ Len(b.request) = 10
            /\ SubSeq(b.request, 1, 8) = head
            /\ SubSeq(b.request, 9, 10) = crc(head).crc
            /\ b.clone = <<0, 0, 0, 0, 0, 0, 0, 0>>

\* the checksum recomputed over the eight header bytes of each request of a
\* poll
C18_Recomputed ==
    [h \in {<<InverterIds[i], IF s <= 17 THEN 59 ELSE 78, C18_Commands[s + 1],
              0, 0, 0, 0, 0>> : i \in 1..NumInverters, s \in 0..LastStep} |->
        crc(h).crc]

\* C18: every request handed to the bus writer is exactly 10 bytes [device
\* address, function code, command code, global flag, 0, 0, 0, 0, crc_lo,
\* crc_hi]: bytes 0..7 are as built (the checksum computation zeroes only
\* its working copy), byte 0 is the address the device was constructed
\* with, and the checksum recomputed over bytes 0..7 is bytes 8..9.
C18_RequestFrame ==
    /\ C18_BuiltRequests
    /\ \A i \in 1..NumInverters :
          inverters[i].id = AuroraInverter_new(InverterIds[i]).id
    /\ lastExchange.kind \notin {"none", "flush"} =>
          LET f == lastExchange.frame
              s == lastExchange.step
          IN  /\ Len(f) = 10
              /\ f[1] = lastExchange.id
              /\ \E i \in 1..NumInverters : f[1] = InverterIds[i]
              /\ f[2] = IF s <= 17 THEN 59 ELSE 78
              /\ f[3] = C18_Commands[s + 1]
              /\ SubSeq(f, 4, 8) = <<0, 0, 0, 0, 0>>
              /\ SubSeq(f, 1, 8) \in DOMAIN C18_Recomputed
              /\ SubSeq(f, 9, 10) = C18_Recomputed[SubSeq(f, 1, 8)]
              /\ lastExchange.clone = <<0, 0, 0, 0, 0, 0, 0, 0>>

C18_Witness ==
    /\ lastExchange.kind = "reply"
    /\ lastExchange.step = 18
    /\ lastExchange.frame = <<2, 78, 0, 0, 0, 0, 0, 0, 59, 201>>
    /\ lastExchange.clone = <<0, 0, 0, 0, 0, 0, 0, 0>>

\* init_inverter succeeded for device i in the running pass: its exchange
\* opened the device's poll, the grid voltage of the pass is positive, and
\* the device has been set Online and stamped in this pass
C19_InitSucceeded(i) ==
    /\ pollOrder # <<>>
    /\ pollOrder[Len(pollOrder)] = InverterIds[i]
    /\ FloatGtZero(convert_bytes_to_f32(Response(0, reading.measure)))
    /\ inverters[i].availability.status = "Online"
    /\ inverters[i].lastmessage = passCount

\* C19: in poll_inverter a measurement request of poll_data or an energy
\* request is about to be sent, or has been sent, for a device only if
\* init_inverter succeeded for that device earlier in the same pass.
C19_InitGatesPoll ==
    \A i \in 1..NumInverters :
        /\ (pc[1] = "poll" /\ idx[1] = i /\ step[1] >= 1) => C19_InitSucceeded(i)
        /\ (/\ lastExchange.kind # "none"
            /\ lastExchange.id = InverterIds[i]
            /\ lastExchange.step >= 1) => C19_InitSucceeded(i)

C19_Witness ==
    /\ passResult[1] = [state |-> "err", at |-> 0]
    /\ lastExchange.id = InverterIds[2]
    /\ lastExchange.kind = "reply"
    /\ lastExchange.step = Len(PollRequests) + 1
    /\ C19_InitSucceeded(2)

\* the exchange just made for device i failed: the port failed, the state
\* byte was not 0, or init_inverter read a grid voltage that is not positive
C20_FailedNow(i) ==
    /\ lastExchange' # lastExchange
    /\ lastExchange'.kind # "none"
    /\ lastExchange'.id = InverterIds[i]
    /\ \/ lastExchange'.kind # "reply"
       \/ lastExchange'.state # 0
       \/ /\ lastExchange'.step = 0
          /\ ~FloatGtZero(convert_bytes_to_f32(Response(0, reading.measure)))

C20_Step ==
    \A i \in 1..NumInverters :
        /\ C20_FailedNow(i) =>
              /\ passResult[i] = Pending
              /\ passResult'[i] = [state |-> "err", at |-> lastExchange'.step]
              /\ pollResult'[1] = "Err"
              /\ pc'[1] = "publish"
        /\ passResult[i].state = "err" =>
              /\ ~(pc[1] = "poll" /\ idx[1] = i)
              /\ ~(pc'[1] = "poll" /\ idx'[1] = i) \/ passResult'[i] = Pending
              /\ \/ lastExchange' = lastExchange
                 \/ lastExchange'.kind = "none"
                 \/ lastExchange'.id # InverterIds[i]

\* C20: within one pass and one device the first failed exchange ends the
\* device's poll: poll_inverter returns the error to the scheduler, and no
\* further request, the failed one included, is sent to the device in that
\* pass.
C20_FirstFailureEndsPoll == [][C20_Step]_vars

C20_Witness ==
    /\ passResult[1] = [state |-> "err", at |-> 5]
    /\ lastExchange.id = InverterIds[1]
    /\ lastExchange.step = 5
    /\ lastExchange.kind = "timeout"
    /\ pc[1] = "publish"
    /\ pollResult[1] = "Err"

\* C21: a failed poll_inverter call leaves every measurement field and every
\* energy total of the device as it was before the call.
C21_FailedPollKeepsFields ==
    \A i \in 1..NumInverters :
        passResult[i].state = "err" =>
            /\ inverters[i].data = passSnapshot[i].data
            /\ inverters[i].energy = passSnapshot[i].energy

\* C22: whatever bytes the bus delivers, send_and_recv, the decoders and the
\* registration-frame builder return success or an error value; no call ends
\* in a panic.
C22_NoReceivedFramePanics ==
    /\ sx.pc # "panicked"
    /\ sx.result # "panic"

\* C23: when a pass has visited all its devices, exactly one uptime message
\* has been published in it, however many devices the collection holds.
C23_OneUptimePerPass ==
    \A t \in Contexts : pc[t] = "unlockInverters" => uptimeCount = 1

\* the serialized field names of Dsp, EnergyTotals and Availablilty
C24_FieldNames ==
    {"grid", "current", "gridpower", "frequency", "vbulk", "ileakdc", "ileak",
     "pin1", "pin2", "invertertemperature", "boostertemperature",
     "input1voltage", "input1current", "input2voltage", "input2current",
     "powerpeak", "powerpeaktoday",
     "day", "week", "month", "year", "total", "since_reset",
     "status"}

\* C24: for each device visited in a pass the flattened telemetry holds
\* exactly one pair per serialized field of its three records (17
\* measurements, 6 energy totals, 1 status), each on the topic
\* prefix/address/field_name with the device's own address, and no topic
\* occurs twice for the device.
C24_OnePairPerField ==
    /\ Cardinality(C24_FieldNames) = 17 + 6 + 1
    /\ \A i \in 1..NumInverters :
          /\ JustPublished(i) => pubLog[i] # {}
          /\ pubLog[i] # {} =>
                /\ Cardinality(pubLog[i]) = Cardinality(C24_FieldNames)
                /\ {m.topic : m \in pubLog[i]} =
                      {Topic(MQTT_TOPIC_NAME, InverterIds[i], k) : k \in C24_FieldNames}
                /\ \A m \in pubLog[i] : m.topic[2] = inverters[i].id

C24_Witness ==
    /\ pc[1] = "unlockInverters"
    /\ Cardinality(pubLog[1]) = 24 /\ Cardinality(pubLog[2]) = 24
    /\ PayloadOf(pubLog[1], Topic(MQTT_TOPIC_NAME, 2, "status")) = {JsonOfString("Online")}
    /\ PayloadOf(pubLog[2], Topic(MQTT_TOPIC_NAME, 3, "since_reset")) # {JsonOfFloat(FloatZero)}
    /\ passResult[2].state = "ok"

\* the function code and command code of the 24 exchanges of a poll: the
\* grid voltage of init_inverter, the 17 measurements, the 6 energy totals
C25_Sequence ==
    <<<<59, 1>>,
      <<59, 1>>, <<59, 2>>, <<59, 3>>, <<59, 4>>, <<59, 5>>, <<59, 7>>, <<59, 6>>,
      <<59, 8>>, <<59, 9>>, <<59, 21>>, <<59, 22>>, <<59, 25>>, <<59, 23>>,
      <<59, 27>>, <<59, 26>>, <<59, 34>>, <<59, 35>>,
      <<78, 0>>, <<78, 1>>, <<78, 3>>, <<78, 4>>, <<78, 5>>, <<78, 6>>>>

\* an exchange is made in this step
C25_NewExchange == lastExchange' # lastExchange /\ lastExchange'.kind # "none"

C25_Step ==
    /\ C25_NewExchange =>
          LET n == lastExchange'.step
              i == CHOOSE j \in 1..NumInverters : InverterIds[j] = lastExchange'.id
          IN  /\ n \in 0..(Len(C25_Sequence) - 1)
              \* the first exchange of a device's poll is the first of the
              \* sequence; each later one follows an accepted exchange and is
              \* the next of the sequence
              /\ IF lastExchange.kind = "none" \/ lastExchange.id # lastExchange'.id
                 THEN n = 0
                 ELSE /\ n = lastExchange.step + 1
                      /\ lastExchange.kind = "reply" /\ lastExchange.state = 0
              /\ lastExchange'.frame # <<>> =>
                    SubSeq(lastExchange'.frame, 2, 3) = C25_Sequence[n + 1]
              \* poll_inverter returns Ok only after the 24th exchange, and an
              \* error at the exchange that failed
              /\ passResult'[i].state = "ok" => n = Len(C25_Sequence) - 1
              /\ passResult'[i].state = "err" => passResult'[i].at = n
              /\ passResult'[i] = Pending => n < Len(C25_Sequence) - 1
    \* between two exchanges of a poll nothing else is put on the bus
    /\ \A i \in 1..NumInverters :
          (passResult[i] # Pending /\ passResult'[i] # Pending
              /\ lastExchange'.id = InverterIds[i]) => ~C25_NewExchange

\* C25: a fully successful poll_inverter makes exactly 24 exchanges, one at
\* a time, in this order: the grid-voltage measurement of init_inverter, the
\* 17 measurement requests in the order of poll_data, the 6 energy requests
\* day, week, month, year, total, since-reset; a failing poll makes a prefix
\* of that sequence.
C25_ExchangeOrder == [][C25_Step]_vars

C25_Witness ==
    /\ lastExchange.step = 23
    /\ lastExchange.kind = "reply"
    /\ SubSeq(lastExchange.frame, 2, 3) = <<78, 6>>
    /\ passResult[2] = [state |-> "ok", at |-> 23]
    /\ passResult[1].state = "err" /\ passResult[1].at = 12

\* the Dsp field each measurement command code is stored in, and the fields
\* stored as 0.001 times the decoded value
C26_FieldOfCode ==
    [c \in {1, 2, 3, 4, 5, 6, 7, 8, 9, 21, 22, 23, 25, 26, 27, 34, 35} |->
        CASE c = 1 -> "grid"
          [] c = 2 -> "current"
          [] c = 3 -> "gridpower"
          [] c = 4 -> "frequency"
          [] c = 5 -> "vbulk"
          [] c = 6 -> "ileakdc"
          [] c = 7 -> "ileak"
          [] c = 8 -> "pin1"
          [] c = 9 -> "pin2"
          [] c = 21 -> "invertertemperature"
          [] c = 22 -> "boostertemperature"
          [] c = 23 -> "input1voltage"
          [] c = 25 -> "input1current"
          [] c = 26 -> "input2voltage"
          [] c = 27 -> "input2current"
          [] c = 34 -> "powerpeak"
          [] c = 35 -> "powerpeaktoday"]

C26_Scaled == {"gridpower", "pin1", "pin2", "powerpeak", "powerpeaktoday"}

\* stored is 0.001 times decoded (to the millionth the model keeps)
C26_IsMilli(stored, decoded) ==
    /\ stored.cls = decoded.cls
    /\ stored.sign = decoded.sign
    /\ decoded.cls = "num" =>
          /\ decoded.micro - 1000 * stored.micro < 1000
          /\ 1000 * stored.micro - decoded.micro < 1000

C26_Step ==
    \A i \in 1..NumInverters :
        (/\ lastExchange' # lastExchange
         /\ lastExchange'.id = InverterIds[i]
         /\ lastExchange'.kind = "reply" /\ lastExchange'.state = 0
         /\ lastExchange'.step \in 1..17) =>
            LET k == C26_FieldOfCode[lastExchange'.frame[3]]
                decoded == convert_bytes_to_f32(Response(0, reading.measure))
                stored == inverters'[i].data[k]
            IN  /\ lastExchange'.frame[2] = 59
                /\ \A f \in DspFields \ {k} :
                      inverters'[i].data[f] = inverters[i].data[f]
                /\ inverters'[i].energy = inverters[i].energy
                /\ inverters'[i].availability = inverters[i].availability
                /\ inverters'[i].id = inverters[i].id
                /\ IF k \in C26_Scaled THEN C26_IsMilli(stored, decoded)
                   ELSE stored = decoded
                /\ \A j \in 1..NumInverters \ {i} : inverters'[j] = inverters[j]

\* C26: each accepted poll_data response changes one measurement field, the
\* one named by the command code of its request, and leaves every other
\* measurement field, every energy total, the status and the address as they
\* were; grid power, both DC input powers and both power peaks are stored as
\* 0.001 times the decoded value, every other field as the decoded value.
C26_OneFieldPerResponse == [][C26_Step]_vars

C26_Witness ==
    /\ lastExchange.id = InverterIds[1]
    /\ lastExchange.kind = "reply" /\ lastExchange.state = 0
    /\ lastExchange.step = 3
    /\ inverters[1].data["gridpower"] = Float("num", 1, 1000)
    /\ inverters[1].data["current"] = Float("num", 1, 1000000)
    /\ inverters[1].data["frequency"] = Float("num", 1, 230000000)
    /\ inverters[1].data["pin1"] = Float("num", 1, 230000)

\* the energy total each command code is stored in
C27_FieldOfCode ==
    [c \in {0, 1, 3, 4, 5, 6} |->
        CASE c = 0 -> "day"
          [] c = 1 -> "week"
          [] c = 3 -> "month"
          [] c = 4 -> "year"
          [] c = 5 -> "total"
          [] c = 6 -> "since_reset"]

\* bytes 2..5 of a response and the signed big-endian integer they hold
C27_Samples ==
    {<<<<0, 0, 0, 0>>, 0>>, <<<<0, 0, 0, 2>>, 2>>, <<<<0, 0, 5, 220>>, 1500>>,
     <<<<0, 31, 255, 255>>, 2097151>>, <<<<255, 255, 255, 255>>, -1>>,
     <<<<255, 255, 252, 24>>, -1000>>, <<<<255, 224, 0, 1>>, -2097151>>}

\* 0.001 times the integer n, in the millionths the model keeps
C27_Milli(n) == Float("num", IF n > 0 THEN 1 ELSE IF n < 0 THEN -1 ELSE 0, 1000 * n)

\* update_value stores 0.001 times the signed integer of bytes 2..5 in the
\* total of its request, whatever the total held, and touches no other total
C27_UpdateTable ==
    \A smp \in C27_Samples : \A n \in 1..Len(EnergyRequests) :
        \A old \in {EnergyTotals_default, [f \in EnergyFields |-> C27_Milli(7)]} :
            LET c == EnergyRequest_as_code(EnergyRequests[n])
                new == EnergyTotals_update_value(old, EnergyRequests[n],
                                                 <<0, 6, smp[1][1], smp[1][2], smp[1][3],
                                                   smp[1][4], 9, 9>>)
            IN  /\ new[C27_FieldOfCode[c]] = C27_Milli(smp[2])
                /\ \A f \in EnergyFields \ {C27_FieldOfCode[c]} : new[f] = old[f]

\* an accepted energy response for device i arrives in this step
C27_Accepted(i) ==
    /\ lastExchange' # lastExchange
    /\ lastExchange'.id = InverterIds[i]
    /\ lastExchange'.kind = "reply" /\ lastExchange'.state = 0
    /\ lastExchange'.step > 17

C27_Step ==
    /\ C27_UpdateTable
    /\ \A i \in 1..NumInverters :
          /\ C27_Accepted(i) =>
                LET k == C27_FieldOfCode[lastExchange'.frame[3]]
                    n == CHOOSE x \in {s[2] : s \in C27_Samples} :
                            <<reading.energy, x>> \in C27_Samples
                IN  /\ lastExchange'.frame[2] = 78
                    /\ inverters'[i].energy[k] = C27_Milli(n)
                    /\ \A f \in EnergyFields \ {k} :
                          inverters'[i].energy[f] = inverters[i].energy[f]
                    /\ inverters'[i].data = inverters[i].data
                    /\ inverters'[i].availability = inverters[i].availability
          \* a total changes only in the step that accepts a response to its
          \* own request
          /\ \A f \in EnergyFields :
                inverters'[i].energy[f] # inverters[i].energy[f] =>
                    /\ C27_Accepted(i)
                    /\ C27_FieldOfCode[lastExchange'.frame[3]] = f

\* C27: each of the six energy totals starts at zero and holds 0.001 times
\* the signed big-endian 32-bit integer in bytes 2..5 of the most recent
\* accepted response to its own request, overwritten and never accumulated;
\* an accepted energy response changes only its own total.
C27_EnergyTotals ==
    /\ \A i \in 1..NumInverters : \A f \in EnergyFields :
          inverters[i].energy[f] = FloatZero
    /\ [][C27_Step]_vars

C27_Witness ==
    /\ lastExchange.id = InverterIds[1]
    /\ lastExchange.kind = "reply" /\ lastExchange.state = 0
    /\ lastExchange.step = 19
    /\ inverters[1].energy["day"] = Float("num", 1, 2000)
    /\ inverters[1].energy["week"] = Float("num", 1, 2000)
    /\ inverters[1].energy["month"] = Float("num", 1, 1500000)

\* C28: the bus operations of one exchange are, in this order, a flush of
\* the receive buffer, the write of the request, the read of the response;
\* the receive buffer is flushed only before the write, never between the
\* write and the read.
C28_FlushOnlyBeforeWrite ==
    lastExchange.kind # "none" =>
        \E n \in 1..3 : lastExchange.ops = SubSeq(<<"flush", "write", "read">>, 1, n)

\* C29: when two well-formed frames arrive back-to-back in one read, the
\* buffer read_all returns is exactly the first frame.
C29_ChainedReadReturnsFirstFrame ==
    (calc.op = "read_all" /\ calc.pos < Len(calc.buf)) =>
        calc.out = SubSeq(calc.buf, 1, calc.pos)

\* records other than the defaults
C30_Filled ==
    [livedata |-> LiveData_decode(LiveDataFrame), id |-> QueryID_decode(QueryIdFrame),
     config |-> QueryConfig_decode(QueryConfigFrame)]

\* send_and_recv on its own, for every port behaviour and reply: a rejected
\* exchange returns the records it was given; an accepted one replaces the
\* record of the response's type by its decoding and returns the other two
C30_ExchangeTable ==
    \A env \in SolaxEnv : \A data \in {Data_default, C30_Filled} :
        LET r == solax_send_and_recv("Registered", <<>>, data, env)
            live == r.ok /\ r.response[7] = 17 /\ r.response[8] = 130
            id == r.ok /\ r.response[7] = 17 /\ r.response[8] = 131
            config == r.ok /\ r.response[7] = 17 /\ r.response[8] = 132
        IN  /\ ~r.ok => r.data = data
            /\ r.data.livedata = IF live THEN LiveData_decode(r.response)
                                 ELSE data.livedata
            /\ r.data.id = IF id THEN QueryID_decode(r.response) ELSE data.id
            /\ r.data.config = IF config THEN QueryConfig_decode(r.response)
                               ELSE data.config

\* the records an accepted response of each type can leave
C30_Decodes ==
    LET accepted == {r \in {solax_send_and_recv("Registered", <<>>, Data_default, env)
                              : env \in SolaxEnv} : r.ok}
    IN  [livedata |-> {LiveData_decode(r.response) :
                          r \in {x \in accepted : x.response[8] = 130}},
         id |-> {QueryID_decode(r.response) :
                    r \in {x \in accepted : x.response[7] = 17 /\ x.response[8] = 131}},
         config |-> {QueryConfig_decode(r.response) :
                        r \in {x \in accepted : x.response[7] = 17 /\ x.response[8] = 132}}]

C30_Step ==
    LET exchanged == sx'.hist # <<>> /\ (sx'.hist # sx.hist \/ sx'.calls # sx.calls)
        e == sx'.hist[Len(sx'.hist)]
    IN  /\ C30_ExchangeTable
        /\ ~exchanged => sx'.data = sx.data
        /\ (exchanged /\ ~e.ok) => sx'.data = sx.data
        /\ \A rec \in {"livedata", "id", "config"} :
              sx'.data[rec] # sx.data[rec] =>
                  /\ exchanged /\ e.ok
                  /\ sx'.data[rec] \in C30_Decodes[rec]
                  /\ \A other \in {"livedata", "id", "config"} \ {rec} :
                        sx'.data[other] = sx.data[other]

\* C30: a rejected exchange (write failure, too few bytes, bad preamble, bad
\* checksum, unrecognized control group or code) leaves the live-data,
\* identity and configuration records as they were; a record is replaced, as
\* a whole, only by an accepted read-group response of its own type (0x82
\* live data, 0x83 identity, 0x84 configuration), which leaves the other two
\* records as they were.
C30_RecordsReplacedByOwnResponse == [][C30_Step]_vars

C30_Witness ==
    /\ Len(sx.hist) >= 3
    /\ sx.hist[Len(sx.hist) - 1].ok
    /\ ~sx.hist[Len(sx.hist)].ok
    /\ sx.data.livedata = LiveData_decode(LiveDataFrame)
    /\ sx.data.id = QueryID_decode(QueryIdFrame)
    /\ sx.data.config = QueryConfig_default

\* the exchanges of an init_inverter call whose discovery exchange ended ok
\* or not, in their order
C31_Order(ok) ==
    IF ok THEN <<"broadcast", "register", "config", "id", "live">>
    ELSE <<"broadcast", "config", "id", "live">>

\* the frame each exchange writes (nothing when the flush or the write fails)
C31_FrameOk(req, frame) ==
    \/ frame = <<>>
    \/ CASE req = "broadcast" -> frame = send_broadcast_message
         [] req = "config" -> frame = request_config_data
         [] req = "id" -> frame = request_query_id_data
         [] req = "live" -> frame = request_live_data
         [] req = "register" -> Len(frame) = 26 /\ frame[7] = 16 /\ frame[8] = 1
         [] OTHER -> FALSE

\* C31: the exchanges an init_inverter call has made are, in this order and
\* each at most once, the broadcast discovery, the registration if and only
\* if the discovery reply was accepted, the configuration query, the
\* identity query and the live-data query; a call that returns has made all
\* three queries whatever the earlier exchanges returned, and the success
\* counter is the number of the queries that succeeded.
C31_InitExchangeOrder ==
    InInit =>
        LET full == C31_Order(sx.hist[1].ok)
            n == Len(sx.hist)
        IN  /\ n <= Len(full)
            /\ \A k \in 1..n : sx.hist[k].req = full[k]
            /\ C31_FrameOk(sx.hist[n].req, sx.sent)
            /\ sx.status_counter = Cardinality({e \in QueryEntries : e.ok})
            /\ sx.status_counter =
                  Cardinality({k \in 1..n : sx.hist[k].req \in {"config", "id", "live"}
                                            /\ sx.hist[k].ok})
            /\ InitReturned => n = Len(full)
            /\ (sx.pc \notin {"idle", "panicked"}) =>
                  sx.pc = (IF n < Len(full) THEN full[n + 1] ELSE "count")

C31_Witness ==
    /\ InitReturned
    /\ Len(sx.hist) = 5
    /\ sx.hist[1].ok /\ ~sx.hist[2].ok
    /\ sx.hist[3].ok /\ ~sx.hist[4].ok /\ sx.hist[5].ok
    /\ sx.status_counter = 2
    /\ sx.sent = request_live_data

\* the frame the claim describes for a discovery reply: the 9-byte
\* registration header, bytes 9..22 of the reply (counted from 0), the
\* address 0x0A and the byte sum of all of these, high byte first
C32_Expected(reply) ==
    LET body == <<170, 85, 0, 0, 0, 0, 16, 1, 15>>
                \o [i \in 1..14 |-> reply[9 + i]] \o <<10>>
        sum == SumBytes(body)
    IN  body \o <<sum \div 256, sum % 256>>

\* C32: the registration frame written after an accepted discovery reply is
\* the 9-byte registration header, then bytes 9..22 of that reply (the
\* 14-byte serial number), then the device address 0x0A, then the two-byte
\* additive checksum of all preceding bytes: 26 bytes in total.
C32_RegistrationFrame ==
    [][(sx.pc = "register" /\ sx'.pc \notin {"register", "panicked"}
        /\ sx'.sent # <<>>)
       => /\ sx'.sent = C32_Expected(sx.response)
          /\ Len(sx'.sent) = 26
          /\ sx'.sent[24] = 10]_vars

C32_Witness ==
    /\ InInit
    /\ Len(sx.hist) = 2
    /\ sx.hist[2].req = "register"
    /\ sx.pc = "config"
    /\ sx.sent = C32_Expected(RegisterRequestFrame)
    /\ SubSeq(sx.sent, 10, 23) = SerialNumber

\* the run mode the claim gives for the bytes of the 2-byte field
C33_RunMode(hi, lo) ==
    IF hi # 0 THEN "Unknown"
    ELSE CASE lo = 0 -> "Wait"
           [] lo = 1 -> "Check"
           [] lo = 2 -> "Normal"
           [] lo = 3 -> "Fault"
           [] lo = 4 -> "PermanentFault"
           [] lo = 5 -> "UpdateMode"
           [] OTHER -> "Unknown"

\* the error code the claim gives for the bytes of the 4-byte field
C33_ErrorCode(b0, b1, b2, b3) ==
    IF b0 # 0 \/ b1 # 0 \/ b2 # 0 THEN "Unknown"
    ELSE CASE b3 = 0 -> "None"
           [] b3 = 1 -> "MainsLostFault"
           [] b3 = 2 -> "GridVoltFault"
           [] b3 = 3 -> "GridFreqFault"
           [] b3 = 4 -> "PvVoltFault"
           [] b3 = 5 -> "IsolationFault"
           [] b3 = 6 -> "TemperatureOverFault"
           [] b3 = 7 -> "FanFault"
           [] b3 = 8 -> "OtherDeviceFault"
           [] OTHER -> "Unknown"

\* C33: LiveData decode maps the run-mode field values 0..5 to Wait, Check,
\* Normal, Fault, PermanentFault, UpdateMode and every other value to
\* Unknown, and the error-code field value 0 to no error, 1..8 to the eight
\* enumerated faults and every other value to Unknown.
C33_RunModeAndErrorCode ==
    calc.op = "live_decode" =>
        /\ calc.out[1] = C33_RunMode(calc.buf[40], calc.buf[41])
        /\ calc.out[2] = C33_ErrorCode(calc.buf[56], calc.buf[57], calc.buf[58],
                                       calc.buf[59])

C33_Witness ==
    /\ calc.op = "live_decode"
    /\ calc.buf[40] = 0 /\ calc.buf[41] = 5
    /\ calc.buf[56] = 0 /\ calc.buf[57] = 0 /\ calc.buf[58] = 0 /\ calc.buf[59] = 8
    /\ calc.out = <<"UpdateMode", "OtherDeviceFault">>

\* a callback that has returned holds no lock, the device-collection lock is
\* only held under the engine lock, and with no callback running both locks
\* are free
C34_NoLockHeldAfterReturn ==
    /\ \A t \in Contexts :
          pc[t] = "idle" => auroraLock # t /\ invertersLock # t
    /\ invertersLock # 0 => auroraLock = invertersLock
    /\ \A t \in Contexts :
          pc[t] = "lockInverters" => auroraLock = t /\ invertersLock # t
    /\ (\A t \in Contexts : pc[t] \in {"idle", "lockAurora"})
          => auroraLock = 0 /\ invertersLock = 0

\* a callback that starts while no other callback is running takes the
\* engine lock and then the device-collection lock
C34_LaterTickAcquires ==
    \A t \in Contexts :
        (/\ \A u \in Contexts \ {t} : pc[u] = "idle"
         /\ pc'[t] # pc[t])
        => /\ pc[t] = "lockAurora"
              => pc'[t] = "lockInverters" /\ auroraLock' = t /\ invertersLock' = 0
           /\ pc[t] = "lockInverters"
              => pc'[t] = "poll" /\ auroraLock' = t /\ invertersLock' = t

\* C34: when a scheduler tick returns, on the polled path and on the skip
\* paths, it holds neither the engine lock nor the device-collection lock;
\* the locks are taken in the order engine, device collection; a later tick
\* can acquire both.
C34_LocksReleasedOnEveryPath ==
    [](C34_NoLockHeldAfterReturn) /\ [][C34_LaterTickAcquires]_vars

C34_Witness ==
    /\ ticksFired = 2
    /\ passCount = 2
    /\ pc[1] = "poll"
    /\ auroraLock = 1 /\ invertersLock = 1
    /\ \A u \in Contexts \ {1} : pc[u] = "idle"

\* the step is an exchange ended by an accepted response of the type `kind`
\* whose decoded record is now the stored one
C35_AnsweredBy(kind) ==
    \E env \in SolaxEnv :
        LET r == solax_send_and_recv(sx.status, sx.rx, sx.data, env)
        IN  /\ r.ok
            /\ r.why = kind
            /\ sx'.data = r.data
            /\ sx'.rx = r.rx

\* a successful query step of init_inverter or a successful poll_data was
\* answered by a response of the requested type
C35_Step ==
    /\ (sx.pc = "idle" /\ sx'.result = "Ok" /\ sx'.hist # <<>>
        /\ sx'.hist[1].req = "poll_data" /\ sx'.calls = sx.calls + 1)
          => C35_AnsweredBy("livedata")
    /\ (sx.pc = "config" /\ sx'.pc = "id" /\ sx'.status_counter = sx.status_counter + 1)
          => C35_AnsweredBy("config")
    /\ (sx.pc = "id" /\ sx'.pc = "live" /\ sx'.status_counter = sx.status_counter + 1)
          => C35_AnsweredBy("id")
    /\ (sx.pc = "live" /\ sx'.pc = "count" /\ sx'.status_counter = sx.status_counter + 1)
          => C35_AnsweredBy("livedata")

\* C35: a Solax query counts as successful only when the accepted response is
\* of the type that was requested: a successful poll_data has replaced the
\* LiveData record by its exchange's response, and in a successful
\* init_inverter each of the configuration, identity and live-data records
\* was replaced by the response to its query.
C35_SuccessOnlyOnRequestedType == [][C35_Step]_vars

\* the reply of the exchange: the bytes of calc.buf that arrived after the
\* request was written
C36_Replies == {LiveDataFrame, QueryConfigFrame, AddressConfirmFrame}

\* C36: after flush returns, no byte that was pending before it remains in
\* the receive buffer, so the response read for a request holds only bytes
\* that arrived after the request was written (not the tail of a chained
\* frame of the previous exchange).
C36_FlushEmptiesReceiveBuffer ==
    calc.op = "flush" =>
        /\ calc.pos = 0
        /\ calc.out \in C36_Replies
        /\ calc.out = SubSeq(calc.buf, Len(calc.buf) - Len(calc.out) + 1, Len(calc.buf))

\* the sum of the bytes b[m..n]
RECURSIVE C37_Sum(_, _, _)
C37_Sum(b, m, n) ==
    IF m > n THEN 0
    ELSE IF m = n THEN b[m]
    ELSE LET mid == (m + n) \div 2
         IN  C37_Sum(b, m, mid) + C37_Sum(b, mid + 1, n)

\* C37: for every byte sequence passed to it, received frames whose byte sum
\* reaches 65536 or more included, calc_partial_crc returns the byte sum
\* modulo 2^16 as (high byte, low byte) and does not fail on arithmetic
\* overflow.
C37_ChecksumWrapsWithoutFailure ==
    calc.op = "partial_crc" =>
        LET s == C37_Sum(calc.buf, 1, Len(calc.buf)) % 65536
        IN  /\ calc.pos = 0
            /\ calc.out = <<s \div 256, s % 256>>

====
